-------------------------- MODULE CollectionProofs --------------------------
(***************************************************************************)
(* Proofs about a fault-injection collection, for any tasks, sites,        *)
(* threads, passes and crashes: what is decided stays decided, nothing     *)
(* that was kept is lost, no task is forgotten, and nothing new is begun   *)
(* once the target is reached.                                             *)
(***************************************************************************)
EXTENDS Collection, FunctionTheorems, FiniteSetTheorems, TLAPS

USE CollectionAssumption

(* Where a thread stands, and what it has read of its trial.               *)
Active(w) == pc[w] # "idle"
Writing(w, unit) == pc[w] \in {"truncate", "fill"} /\ pending[w].unit = unit
OnStability(w) == pc[w] = "stability" \/ Writing(w, "stability")
AtSite(w) == pc[w] \in {"candidate", "measure"} \/ Writing(w, "candidate")
OnCandidates(w) == pc[w] = "next" \/ AtSite(w)
SaysYes(w, unit) == journal[<<unit, task[w], trial[w], 0>>] = "yes"

(* A task is a thread's, or in the queue, or lost: never two of them.      *)
Alone ==
  /\ ~Running => \A w \in Workers : ~Active(w)
  /\ \A w \in Workers : Active(w) =>
       /\ task[w] \in Tasks
       /\ task[w] \notin queue
       /\ task[w] \in failed => pc[w] = "finish"
       /\ \A v \in Workers \ {w} : Active(v) => task[v] # task[w]
  /\ queue \intersect failed = {}

(* What a thread builds on is on disk, and what it is about to write is    *)
(* not.                                                                    *)
BuiltOnDisk(w) ==
  /\ OnStability(w) => SaysYes(w, "base")
  /\ OnCandidates(w) => SaysYes(w, "base") /\ SaysYes(w, "stability") /\ at[w] >= 1
  /\ AtSite(w) => at[w] \in Sites
  /\ pc[w] = "truncate" => journal[Key(w, pending[w].unit)] = "absent"
  /\ pc[w] = "fill" => journal[Key(w, pending[w].unit)] = "torn"
  /\ pc[w] = "measure" => journal[Key(w, "candidate")] = "absent"

(* Every thread, wherever it stands.                                       *)
InOrder == \A w \in Workers : BuiltOnDisk(w)

(* A thread that tries candidates is beyond this one.                      *)
Past(w, key) == OnCandidates(w) /\ trial[w] = key[3] /\ key[4] < at[w]

(* A task with an item is not queued again, and its thread is past it.     *)
HandedOver ==
  Running => \A key \in Candidates : items[key] # 0 =>
    /\ key[2] \notin queue \union failed
    /\ \A w \in Workers : Active(w) /\ task[w] = key[2] =>
         pc[w] = "finish" \/ Past(w, key)

(* Until something is raised or the collection stops, a task is somewhere. *)
NobodyForgotten ==
  Running /\ raised = {} =>
    /\ \A w \in Workers : pc[w] = "finish" => task[w] \in settled \union failed
    /\ stopped = "no" =>
         \A t \in Tasks : \/ t \in queue \union failed \union settled
                          \/ \E w \in Workers : Active(w) /\ task[w] = t

(* The last thread to finish a task has counted everything.                *)
Counted == Running /\ raised = {} /\ (\A w \in Workers : ~Active(w)) => kept = KeptOnDisk

(* The invariant: no part is inductive without the others.                 *)
CollectionInv ==
  /\ TypeOK /\ Alone /\ InOrder /\ HandedOver /\ NobodyForgotten /\ Counted
  /\ FunnelIsOnDisk /\ NothingIsDropped

-----------------------------------------------------------------------------
(* The sites of a run are numbered from one.                               *)
LEMMA SiteNumbers ==
  /\ Cardinality(Sites) \in Nat
  /\ \A s : s \in Sites <=> s \in 1..Cardinality(Sites)
  BY FS_CardinalityType

(* Every key names its unit, its task, its trial and its site.             *)
LEMMA KeyParts ==
  /\ \A key \in Candidates :
       /\ key \in Keys
       /\ key = <<"candidate", key[2], key[3], key[4]>>
       /\ key[2] \in Tasks /\ key[3] \in 1..Trials /\ key[4] \in Sites
  /\ \A t \in Tasks, k \in 1..Trials, s \in Sites : <<"candidate", t, k, s>> \in Candidates
  /\ \A unit \in {"base", "stability"}, t \in Tasks, k \in 1..Trials :
       <<unit, t, k, 0>> \in Keys \ Candidates
  <1>1. \A key \in Keys : \/ /\ key \in {"base", "stability"} \X Tasks \X (1..Trials) \X {0}
                             /\ key[1] # "candidate"
                          \/ key \in {"candidate"} \X Tasks \X (1..Trials) \X Sites
    BY DEF Keys
  <1>2. \A key \in Candidates : key \in {"candidate"} \X Tasks \X (1..Trials) \X Sites
    BY <1>1 DEF Candidates
  <1>3. \A t \in Tasks, k \in 1..Trials, s \in Sites : <<"candidate", t, k, s>> \in Candidates
    BY DEF Candidates, Keys
  <1>4. \A unit \in {"base", "stability"}, t \in Tasks, k \in 1..Trials :
          <<unit, t, k, 0>> \in Keys \ Candidates
    BY DEF Candidates, Keys
  <1> QED BY <1>2, <1>3, <1>4 DEF Candidates

(* There are finitely many keys, and a count of kept items is a number.    *)
LEMMA CandidatesFinite == IsFiniteSet(Candidates)
  <1> DEFINE T == (Tasks \X (1..Trials)) \X Sites
             f == [p \in T |-> <<"candidate", p[1][1], p[1][2], p[2]>>]
  <1>1. IsFiniteSet(T)
    <2>1. IsFiniteSet(1..Trials)
      BY FS_Interval
    <2>2. IsFiniteSet(Tasks \X (1..Trials))
      BY <2>1, FS_Product
    <2> QED BY <2>2, FS_Product
  <1>2. f \in Surjection(T, Candidates)
    <2>1. f \in [T -> Candidates]
      BY KeyParts
    <2>2. \A key \in Candidates : \E p \in T : f[p] = key
      <3> SUFFICES ASSUME NEW key \in Candidates
                   PROVE  \E p \in T : f[p] = key
        OBVIOUS
      <3>1. <<<<key[2], key[3]>>, key[4]>> \in T
        BY KeyParts
      <3>2. f[<<<<key[2], key[3]>>, key[4]>>] = key
        BY <3>1, KeyParts
      <3> QED BY <3>1, <3>2
    <2> QED BY <2>1, <2>2 DEF Surjection
  <1> HIDE DEF T, f
  <1> QED BY <1>1, <1>2, FS_Surjection

LEMMA KeptIsNumber == KeptOnDisk \in Nat
  <1>1. {key \in Candidates : journal[key] = "yes"} \in SUBSET Candidates
    OBVIOUS
  <1> QED BY <1>1, CandidatesFinite, FS_Subset, FS_CardinalityType DEF KeptOnDisk

(* The record a thread is at.                                              *)
LEMMA KeyOfThread ==
  ASSUME TypeOK, Alone, InOrder, NEW w \in Workers, Active(w)
  PROVE  /\ \A unit \in {"base", "stability"} :
              /\ Key(w, unit) = <<unit, task[w], trial[w], 0>>
              /\ Key(w, unit) \in Keys \ Candidates
         /\ Key(w, "candidate") = <<"candidate", task[w], trial[w], at[w]>>
         /\ at[w] \in Sites => Key(w, "candidate") \in Candidates
         /\ task[w] \in Tasks /\ trial[w] \in 1..Trials
  BY KeyParts DEF TypeOK, Alone, Key, Active

-----------------------------------------------------------------------------
(* A process that begins has no record, no item and no task in hand.       *)
LEMMA CollectionStart == Init => CollectionInv
  <1> SUFFICES ASSUME Init PROVE CollectionInv
    OBVIOUS
  <1>1. TypeOK
    BY SiteNumbers DEF Init, TypeOK, Blank, Nothing, Records, Ends, Units, Labels, Readable
  <1>2. \A w \in Workers : ~Active(w) /\ pc[w] = "idle"
    BY DEF Init, Active
  <1>3. ~Running /\ proc = "down"
    BY DEF Init, Running
  <1>4. FunnelIsOnDisk
    BY <1>3, KeyParts DEF Init, FunnelIsOnDisk
  <1> QED BY <1>1, <1>2, <1>3, <1>4 DEF Init, CollectionInv, Alone, InOrder, HandedOver,
          BuiltOnDisk, NobodyForgotten, Counted, NothingIsDropped, OnStability,
          OnCandidates, AtSite, Writing

-----------------------------------------------------------------------------
(* Every step of a thread, a pass or a process keeps the types.            *)
LEMMA CollectionTypesStep ==
  ASSUME CollectionInv, [Next]_vars
  PROVE  TypeOK'
  <1> USE DEF CollectionInv
  <1>0. kept' \in Nat
    <2>1. KeptOnDisk \in Nat /\ kept \in Nat
      BY KeptIsNumber DEF TypeOK
    <2>2. kept' \in {kept, KeptOnDisk, 0}
      BY DEF Next, StartProcess, Run, Unwind, EndStopped, EndExhausted, NextPass, Park, End, Crash,
             Work, Take, Record, Lose, Unreadable, Halt, Raise, Truncate, Fill, BasePassed,
             NotUsable, FindSites, NextSite, RejectRepeat, Plant, Measure, Decide, Keep, Reject,
             FinishTask, CountUnreadable, vars
    <2> QED BY <2>1, <2>2
  <1>1. CASE StartProcess
    BY <1>0, <1>1, SiteNumbers DEF TypeOK, StartProcess, Fresh, Blank, Nothing, Ends,
       Units, Labels, Readable
  <1>2. CASE Unwind \/ EndStopped \/ EndExhausted \/ Park \/ NextPass
    <2>1. CASE Unwind \/ EndStopped \/ EndExhausted \/ Park
      <3>1. proc' \in Ends /\ parked' \in {parked, failed}
        <4>1. raised \subseteq {"stop", "unreadable"} /\ stopped \in {"no", "target", "time"}
          BY DEF TypeOK
        <4> QED BY <2>1, <4>1 DEF Unwind, EndStopped, EndExhausted, Park, StopReasons, End, Ends
      <3>2. UNCHANGED <<journal, pass, starts, poolVars, kept, items, repeated, pc,
            workVars, settled>>
        BY <2>1 DEF Unwind, EndStopped, EndExhausted, Park, End
      <3> QED BY <3>1, <3>2 DEF TypeOK, poolVars, workVars
    <2>2. CASE NextPass
      BY <2>2 DEF TypeOK, NextPass, workVars
    <2> QED BY <1>2, <2>1, <2>2
  <1>3. CASE Crash
    BY <1>0, <1>3, SiteNumbers
       DEF TypeOK, Crash, Fresh, Blank, Nothing, Ends, Units, Labels, Readable
  <1>4. ASSUME NEW w \in Workers, NEW t \in Tasks, Take(w, t)
        PROVE  TypeOK'
    <2>1. stopped' \in {"no", "target", "time"}
      BY <1>4 DEF TypeOK, Take, StopReasons
    <2>2. task' \in [Workers -> Tasks \union {Anyone}]
      BY <1>4 DEF TypeOK, Take
    <2>3. trial' \in [Workers -> 1..Trials]
      <3>1. 1 \in 1..Trials
        OBVIOUS
      <3> QED BY <1>4, <3>1 DEF TypeOK, Take
    <2>4. pc' \in [Workers -> Labels]
      BY <1>4 DEF TypeOK, Take, Goto, Units, Labels
    <2> QED BY <1>4, <2>1, <2>2, <2>3, <2>4 DEF TypeOK, Take, procVars
  <1>5. ASSUME NEW w \in Workers,
               \/ \E unit \in Units : Record(w, unit)
               \/ RejectRepeat(w) \/ Measure(w)
        PROVE  TypeOK'
    <2>1. PICK unit \in Units, says \in Readable : Decide(w, unit, says)
      BY <1>5 DEF Record, RejectRepeat, Measure, Units, Readable
    <2> QED BY <1>0, <2>1 DEF TypeOK, Decide, Goto, procVars, poolVars, Labels
  <1>6. ASSUME NEW w \in Workers, Unreadable(w) \/ Halt(w) \/ CountUnreadable(w)
        PROVE  TypeOK'
    <2>1. PICK what \in {"stop", "unreadable"} : Raise(w, what)
      BY <1>6 DEF Unreadable, Halt, CountUnreadable
    <2> QED BY <1>0, <2>1 DEF TypeOK, Raise, Goto, procVars, workVars, Labels
  <1>7. ASSUME NEW w \in Workers, Truncate(w) \/ Fill(w)
        PROVE  TypeOK'
    <2>1. pending[w].unit \in Units /\ pending[w].says \in Records
      BY DEF TypeOK, Readable, Records
    <2> QED BY <1>0, <1>7, <2>1, ZenonT(60)
            DEF TypeOK, Truncate, Fill, Goto, procVars, poolVars, workVars, Records, Labels
  <1>8. ASSUME NEW w \in Workers, \E unit \in Units : Lose(w, unit)
        PROVE  TypeOK'
    <2>1. task[w] \in Tasks
      BY <1>8, KeyOfThread DEF Lose, Owed, Active, Units, Labels
    <2> QED BY <1>0, <1>8, <2>1 DEF TypeOK, Lose, Goto, procVars, workVars, Labels
  <1>9. ASSUME NEW w \in Workers, BasePassed(w) \/ FindSites(w) \/ Plant(w) \/ FinishTask(w)
        PROVE  TypeOK'
    <2>1. pc' \in [Workers -> Labels]
      BY <1>9 DEF TypeOK, BasePassed, FindSites, Plant, FinishTask, Goto, Units, Labels
    <2>2. CASE FindSites(w)
      <3>1. Repeats[task[w]] \subseteq Sites
        BY <2>2, KeyOfThread DEF FindSites, Known, Active
      <3>2. at' \in [Workers -> 0..Cardinality(Sites) + 1]
        BY <2>2, SiteNumbers DEF TypeOK, FindSites
      <3> QED BY <2>1, <2>2, <3>1, <3>2 DEF TypeOK, FindSites, procVars, poolVars
    <2>3. CASE BasePassed(w) \/ Plant(w) \/ FinishTask(w)
      BY <1>0, <2>1, <2>3 DEF TypeOK, BasePassed, Plant, FinishTask, procVars, poolVars, workVars
    <2> QED BY <1>9, <2>2, <2>3
  <1>10. ASSUME NEW w \in Workers, NotUsable(w)
         PROVE  TypeOK'
    <2>1. task[w] \in Tasks
      BY <1>10, KeyOfThread DEF NotUsable, Known, Active
    <2>2. trial' \in [Workers -> 1..Trials]
      <3>1. trial[w] \in 1..Trials /\ (trial[w] < Trials => trial[w] + 1 \in 1..Trials)
        BY DEF TypeOK
      <3> QED BY <1>10, <3>1 DEF TypeOK, NotUsable
    <2>3. pc' \in [Workers -> Labels]
      BY <1>10 DEF TypeOK, NotUsable, Goto, Units, Labels
    <2>4. settled' \in SUBSET Tasks
      BY <1>10, <2>1 DEF TypeOK, NotUsable
    <2> QED BY <1>10, <2>2, <2>3, <2>4 DEF TypeOK, NotUsable, procVars, poolVars
  <1>11. ASSUME NEW w \in Workers, NextSite(w)
         PROVE  TypeOK'
    <2>1. task[w] \in Tasks
      BY <1>11, KeyOfThread DEF NextSite, Active
    <2>2. ~Enough(w) => at[w] + 1 \in 0..Cardinality(Sites) + 1
      <3>1. ~Enough(w) => at[w] \in 1..Cardinality(Sites)
        BY SiteNumbers DEF Enough
      <3> QED BY <3>1, SiteNumbers
    <2>3. at' \in [Workers -> 0..Cardinality(Sites) + 1]
      BY <1>11, <2>2 DEF TypeOK, NextSite
    <2>4. pc' \in [Workers -> Labels]
      BY <1>11 DEF TypeOK, NextSite, Goto, Units, Labels
    <2>5. settled' \in SUBSET Tasks
      BY <1>11, <2>1 DEF TypeOK, NextSite
    <2> QED BY <1>11, <2>3, <2>4, <2>5 DEF TypeOK, NextSite, procVars, poolVars
  <1>12. ASSUME NEW w \in Workers, Keep(w) \/ Reject(w)
         PROVE  TypeOK'
    <2>1. Active(w) /\ at[w] \in Sites /\ Key(w, "candidate") \in Candidates
      BY <1>12, KeyOfThread DEF Keep, Reject, Known, Active, InOrder, BuiltOnDisk, AtSite
    <2>2. at[w] + 1 \in 0..Cardinality(Sites) + 1
      <3>1. at[w] \in 1..Cardinality(Sites)
        BY <2>1, SiteNumbers
      <3> QED BY <3>1, SiteNumbers
    <2>3. at' \in [Workers -> 0..Cardinality(Sites) + 1]
      BY <1>12, <2>2 DEF TypeOK, Keep, Reject
    <2>4. pc' \in [Workers -> Labels]
      BY <1>12 DEF TypeOK, Keep, Reject, Goto, Units, Labels
    <2>5. items' \in [Candidates -> Nat]
      <3>1. CASE Keep(w)
        <4>1. items' = [items EXCEPT ![Key(w, "candidate")] = @ + 1]
          BY <3>1 DEF Keep
        <4> QED BY <2>1, <4>1 DEF TypeOK
      <3>2. CASE Reject(w)
        BY <3>2 DEF TypeOK, Reject
      <3> QED BY <1>12, <3>1, <3>2
    <2>6. buckets' \in [Workers -> SUBSET {Bucket[s] : s \in Sites}]
      <3>1. CASE Keep(w)
        <4>1. buckets' = [buckets EXCEPT ![w] = @ \union {Bucket[at[w]]}]
          BY <3>1 DEF Keep
        <4>2. Bucket[at[w]] \in {Bucket[s] : s \in Sites}
          BY <2>1
        <4> QED BY <4>1, <4>2 DEF TypeOK
      <3>2. CASE Reject(w)
        BY <3>2 DEF TypeOK, Reject
      <3> QED BY <1>12, <3>1, <3>2
    <2> QED BY <1>12, <2>3, <2>4, <2>5, <2>6 DEF TypeOK, Keep, Reject, procVars, poolVars
  <1>13. CASE UNCHANGED vars
    BY <1>13 DEF TypeOK, vars, procVars, poolVars, workVars
  <1> QED BY <1>1, <1>2, <1>3, <1>4, <1>5, <1>6, <1>7, <1>8, <1>9, <1>10, <1>11, <1>12, <1>13
          DEF Next, Run, Work

-----------------------------------------------------------------------------
(* A step of one thread leaves the others where they are.                  *)
LEMMA OneThread ==
  ASSUME TypeOK, NEW w \in Workers, Work(w)
  PROVE  /\ Running /\ Running' /\ UNCHANGED proc
         /\ \A v \in Workers \ {w} :
              /\ pc'[v] = pc[v] /\ task'[v] = task[v] /\ trial'[v] = trial[v]
              /\ at'[v] = at[v] /\ pending'[v] = pending[v]
  BY DEF TypeOK, Work, Take, Record, Lose, Unreadable, Halt, Raise, Truncate, Fill, BasePassed,
         NotUsable, FindSites, NextSite, RejectRepeat, Plant, Measure, Decide, Keep, Reject,
         FinishTask, CountUnreadable, Owed, Known, Goto, procVars, workVars, Running

(* A thread writes one record, the one it owes: nobody else's, and none    *)
(* that could be read.                                                     *)
LEMMA OneRecord ==
  ASSUME CollectionInv, NEW w \in Workers, Work(w), NEW key \in Keys, journal'[key] # journal[key]
  PROVE  /\ Active(w) /\ key[2] = task[w]
         /\ key = Key(w, pending[w].unit)
         /\ journal[key] \notin Readable
         /\ pc[w] \in {"truncate", "fill"}
         /\ journal'[key] \in {"torn", pending[w].says}
  <1>1. Truncate(w) \/ Fill(w)
    BY DEF Work, Take, Record, Lose, Unreadable, Halt, Raise, BasePassed, NotUsable, FindSites,
           NextSite, RejectRepeat, Plant, Measure, Decide, Keep, Reject, FinishTask,
           CountUnreadable
  <1>2. key = Key(w, pending[w].unit) /\ Active(w) /\ pc[w] \in {"truncate", "fill"}
        /\ journal'[key] \in {"torn", pending[w].says}
    BY <1>1 DEF CollectionInv, TypeOK, Truncate, Fill, Active
  <1>3. journal[key] \notin Readable
    BY <1>1, <1>2 DEF CollectionInv, InOrder, BuiltOnDisk, Truncate, Fill, Readable
  <1> QED BY <1>2, <1>3 DEF Key

(* The records of other tasks, and the ones that can be read, stay.        *)
LEMMA RecordsStay ==
  ASSUME CollectionInv, NEW w \in Workers, Work(w), NEW key \in Keys
  PROVE  /\ journal[key] \in Readable => journal'[key] = journal[key]
         /\ key[2] # task[w] => journal'[key] = journal[key]
  BY OneRecord

(* Passes and processes begin and end without a thread and a record.       *)
LEMMA NoThread ==
  ASSUME CollectionInv, \/ StartProcess \/ Crash \/ NextPass \/ UNCHANGED vars
                        \/ Unwind \/ EndStopped \/ EndExhausted \/ Park
  PROVE  /\ UNCHANGED journal
         /\ \/ \A w \in Workers : pc'[w] = "idle"
            \/ UNCHANGED vars
  BY DEF CollectionInv, StartProcess, Crash, Fresh, NextPass, Unwind, EndStopped, EndExhausted,
         Park, End, Quiet, Drained, Idle, vars

-----------------------------------------------------------------------------
(* A task is taken out of the queue by one thread.                         *)
LEMMA AloneStep ==
  ASSUME CollectionInv, [Next]_vars
  PROVE  Alone'
  <1> USE DEF CollectionInv
  <1>1. CASE \/ StartProcess \/ Crash
    BY <1>1 DEF Alone, Active, StartProcess, Crash, Fresh
  <1>2. CASE NextPass
    BY <1>2 DEF Alone, Active, NextPass, Quiet, Drained, Idle
  <1>3. CASE \/ Unwind \/ EndStopped \/ EndExhausted \/ Park
    BY <1>3 DEF Alone, Active, Unwind, EndStopped, EndExhausted, Park, End, Quiet, Drained, Idle,
                poolVars, workVars
  <1>4. CASE UNCHANGED vars
    BY <1>4 DEF Alone, Active, Running, vars, procVars, poolVars, workVars
  <1>5. ASSUME NEW w \in Workers, Work(w)
        PROVE  Alone'
    <2>1. /\ Running' /\ \A v \in Workers \ {w} : pc'[v] = pc[v] /\ task'[v] = task[v]
      BY <1>5, OneThread
    <2>2. ASSUME NEW t \in Tasks, Take(w, t)
          PROVE  Alone'
      <3>1. CASE task' = [task EXCEPT ![w] = t] /\ pc' = [pc EXCEPT ![w] = "base"]
        BY <2>1, <2>2, <3>1 DEF Alone, Active, Take, TypeOK
      <3>2. CASE UNCHANGED <<task, pc>>
        BY <2>1, <2>2, <3>2 DEF Alone, Active, Take
      <3> QED BY <2>2, <3>1, <3>2 DEF Take, Goto
    <2>3. ASSUME NEW unit \in Units, Lose(w, unit)
          PROVE  Alone'
      BY <2>1, <2>3 DEF Alone, Active, Lose, Owed, Goto, TypeOK, workVars
    <2>4. CASE Work(w) /\ UNCHANGED <<queue, failed, task>> /\ Active(w) /\ pc[w] # "finish"
      BY <2>1, <2>4 DEF Alone, Active
    <2>5. CASE Work(w) /\ UNCHANGED <<queue, failed, task>> /\ pc'[w] = "idle"
      BY <2>1, <2>5 DEF Alone, Active
    <2>6. \/ \E t \in Tasks : Take(w, t)
          \/ \E unit \in Units : Lose(w, unit)
          \/ UNCHANGED <<queue, failed, task>> /\ Active(w) /\ pc[w] # "finish"
          \/ UNCHANGED <<queue, failed, task>> /\ pc'[w] = "idle"
      BY <1>5 DEF Work, Record, Unreadable, Halt, Raise, Truncate, Fill, BasePassed, NotUsable,
                  FindSites, NextSite, RejectRepeat, Plant, Measure, Decide, Keep, Reject,
                  FinishTask, CountUnreadable, Owed, Known, Goto, poolVars, workVars, Active,
                  Units, TypeOK
    <2> QED BY <1>5, <2>2, <2>3, <2>4, <2>5, <2>6
  <1> QED BY <1>1, <1>2, <1>3, <1>4, <1>5 DEF Next, Run

(* What another thread writes does not touch what this one built on.       *)
LEMMA OthersInOrder ==
  ASSUME CollectionInv, NEW w \in Workers, Work(w), NEW v \in Workers \ {w}
  PROVE  BuiltOnDisk(v)'
  <1> USE DEF CollectionInv
  <1>1. /\ pc'[v] = pc[v] /\ task'[v] = task[v] /\ trial'[v] = trial[v]
        /\ at'[v] = at[v] /\ pending'[v] = pending[v]
    BY OneThread
  <1>2. CASE ~Active(v)
    BY <1>1, <1>2 DEF BuiltOnDisk, OnStability, OnCandidates, AtSite, Writing, Active
  <1>3. CASE Active(v)
    <2>1. /\ Active(w) => task[v] # task[w]
          /\ BuiltOnDisk(v)
      BY <1>3 DEF Alone, InOrder
    <2>2. \A key \in Keys : key[2] = task[v] => journal'[key] = journal[key]
      BY <2>1, OneRecord
    <2>3. ASSUME NEW unit \in {"base", "stability"}
          PROVE  journal'[<<unit, task[v], trial[v], 0>>] = journal[<<unit, task[v], trial[v], 0>>]
      <3>1. <<unit, task[v], trial[v], 0>> \in Keys
        BY <1>3, KeyOfThread
      <3>2. <<unit, task[v], trial[v], 0>>[2] = task[v]
        OBVIOUS
      <3> QED BY <2>2, <3>1, <3>2
    <2>4. pending[v].unit \in Units
      BY DEF TypeOK
    <2>5. ASSUME NEW unit \in Units, unit = "candidate" => at[v] \in Sites
          PROVE  journal'[Key(v, unit)'] = journal[Key(v, unit)]
      <3>1. Key(v, unit)' = Key(v, unit)
        BY <1>1 DEF Key
      <3>2. Key(v, unit) \in Keys /\ Key(v, unit)[2] = task[v]
        BY <1>3, <2>5, KeyOfThread, KeyParts DEF Units
      <3> QED BY <2>2, <3>1, <3>2
    <2> QED BY <1>1, <2>1, <2>3, <2>4, <2>5 DEF BuiltOnDisk, OnStability, OnCandidates, AtSite,
               Writing, SaysYes, Units
  <1> QED BY <1>2, <1>3

(* A thread goes on to what its own records allow.                         *)
LEMMA OwnInOrder ==
  ASSUME CollectionInv, NEW w \in Workers, Work(w)
  PROVE  BuiltOnDisk(w)'
  <1> USE DEF CollectionInv
  <1> DEFINE away == {"idle", "base", "finish"}
  <1>1. CASE pc'[w] \in away
    BY <1>1 DEF BuiltOnDisk, OnStability, OnCandidates, AtSite, Writing
  <1>2. ASSUME NEW unit \in Units, NEW says \in Readable, Decide(w, unit, says),
               Owed(w, unit) \/ (unit = "candidate" /\ pc[w] = "measure")
        PROVE  BuiltOnDisk(w)'
    <2>1. /\ pc'[w] = "truncate" /\ pending'[w].unit = unit
          /\ UNCHANGED <<journal, task, trial, at>>
      BY <1>2 DEF Decide, Goto, TypeOK
    <2>2. journal[Key(w, unit)] = "absent" /\ BuiltOnDisk(w)
      BY <1>2 DEF Owed, InOrder, BuiltOnDisk
    <2>3. Key(w, unit)' = Key(w, unit)
      BY <2>1 DEF Key
    <2> QED BY <1>2, <2>1, <2>2, <2>3 DEF BuiltOnDisk, OnStability, OnCandidates, AtSite, Writing,
               SaysYes, Owed, Units
  <1>3. CASE Truncate(w)
    <2>1. /\ pc[w] = "truncate" /\ pc'[w] = "fill" /\ BuiltOnDisk(w)
          /\ UNCHANGED <<task, trial, at, pending>>
      BY <1>3 DEF Truncate, Goto, TypeOK, InOrder, workVars
    <2>2. Key(w, pending[w].unit) \in Keys
      BY <2>1, KeyOfThread, KeyParts DEF Active, BuiltOnDisk, AtSite, Writing, TypeOK, Units
    <2>3. journal'[Key(w, pending[w].unit)] = "torn"
          /\ Key(w, pending[w].unit)' = Key(w, pending[w].unit)
      BY <1>3, <2>1, <2>2 DEF Truncate, TypeOK, Key
    <2>4. \A unit \in {"base", "stability"} :
            SaysYes(w, unit) => journal'[<<unit, task[w], trial[w], 0>>] = "yes"
      BY <2>1, KeyOfThread, RecordsStay DEF SaysYes, Readable, Active
    <2> QED BY <2>1, <2>3, <2>4 DEF BuiltOnDisk, OnStability, OnCandidates, AtSite, Writing, SaysYes
  <1>4. CASE Fill(w)
    <2>1. /\ pc[w] = "fill" /\ pc'[w] = pending[w].unit /\ BuiltOnDisk(w)
          /\ UNCHANGED <<task, trial, at, pending>> /\ pending[w].unit \in Units
      BY <1>4 DEF Fill, Goto, TypeOK, InOrder, workVars
    <2>2. \A unit \in {"base", "stability"} :
            SaysYes(w, unit) => journal'[<<unit, task[w], trial[w], 0>>] = "yes"
      BY <2>1, KeyOfThread, RecordsStay DEF SaysYes, Readable, Active
    <2> QED BY <2>1, <2>2 DEF BuiltOnDisk, OnStability, OnCandidates, AtSite, Writing,
               SaysYes, Units
  <1>5. CASE BasePassed(w)
    <2>1. /\ pc'[w] = "stability" /\ journal[Key(w, "base")] = "yes"
          /\ UNCHANGED <<journal, task, trial, at, pending>>
      BY <1>5 DEF BasePassed, Known, Goto, TypeOK, workVars
    <2> QED BY <2>1 DEF BuiltOnDisk, OnStability, OnCandidates, AtSite, Writing, SaysYes, Key
  <1>6. CASE FindSites(w)
    <2>1. /\ pc[w] = "stability" /\ pc'[w] = "next" /\ journal[Key(w, "stability")] = "yes"
          /\ at'[w] = 1 /\ BuiltOnDisk(w)
          /\ UNCHANGED <<journal, task, trial, pending>>
      BY <1>6 DEF FindSites, Known, Goto, TypeOK, InOrder
    <2> QED BY <2>1 DEF BuiltOnDisk, OnStability, OnCandidates, AtSite, Writing, SaysYes, Key
  <1>7. CASE NextSite(w)
    <2>1. /\ pc[w] = "next" /\ BuiltOnDisk(w) /\ at[w] \in Nat
          /\ UNCHANGED <<journal, task, trial, pending>>
      BY <1>7 DEF NextSite, InOrder, TypeOK
    <2>2. \/ pc'[w] = "finish"
          \/ pc'[w] = "next" /\ at'[w] = at[w] + 1
          \/ pc'[w] = "candidate" /\ at'[w] = at[w] /\ at[w] \in Sites
      BY <1>7 DEF NextSite, Goto, TypeOK, Enough
    <2> QED BY <2>1, <2>2 DEF BuiltOnDisk, OnStability, OnCandidates, AtSite, Writing, SaysYes
  <1>8. CASE Plant(w)
    <2>1. /\ pc[w] = "candidate" /\ pc'[w] = "measure" /\ journal[Key(w, "candidate")] = "absent"
          /\ BuiltOnDisk(w) /\ UNCHANGED <<journal, task, trial, at, pending>>
      BY <1>8 DEF Plant, Owed, Goto, TypeOK, InOrder, workVars
    <2>2. Key(w, "candidate")' = Key(w, "candidate")
      BY <2>1 DEF Key
    <2> QED BY <2>1, <2>2 DEF BuiltOnDisk, OnStability, OnCandidates, AtSite, Writing, SaysYes
  <1>9. CASE Keep(w) \/ Reject(w)
    <2>1. /\ pc[w] = "candidate" /\ pc'[w] = "next" /\ BuiltOnDisk(w) /\ at[w] \in Nat
          /\ at'[w] = at[w] + 1 /\ UNCHANGED <<journal, task, trial, pending>>
      BY <1>9 DEF Keep, Reject, Known, Goto, TypeOK, InOrder
    <2> QED BY <2>1 DEF BuiltOnDisk, OnStability, OnCandidates, AtSite, Writing, SaysYes
  <1>10. CASE (\E t \in Tasks : Take(w, t)) /\ pc'[w] \notin away
    BY <1>10 DEF Take, Goto, TypeOK
  <1>11. CASE \/ \E unit \in Units : Lose(w, unit)
              \/ NotUsable(w) \/ FinishTask(w) \/ Unreadable(w) \/ Halt(w) \/ CountUnreadable(w)
    <2>1. pc'[w] \in away
      BY <1>11 DEF Lose, NotUsable, FinishTask, Unreadable, Halt, CountUnreadable, Raise, Goto,
                   TypeOK
    <2> QED BY <1>1, <2>1
  <1>12. CASE (\E unit \in Units : Record(w, unit)) \/ RejectRepeat(w) \/ Measure(w)
    BY <1>2, <1>12 DEF Record, RejectRepeat, Measure, Units, Readable
  <1> QED BY <1>1, <1>3, <1>4, <1>5, <1>6, <1>7, <1>8, <1>9, <1>10, <1>11, <1>12 DEF Work

LEMMA InOrderStep ==
  ASSUME CollectionInv, [Next]_vars
  PROVE  InOrder'
  <1>1. ASSUME NEW w \in Workers, Work(w)
        PROVE  InOrder'
    BY <1>1, OthersInOrder, OwnInOrder DEF InOrder
  <1>2. CASE \/ StartProcess \/ Crash \/ NextPass \/ UNCHANGED vars
             \/ Unwind \/ EndStopped \/ EndExhausted \/ Park
    <2>1. CASE \A w \in Workers : pc'[w] = "idle"
      BY <2>1 DEF InOrder, BuiltOnDisk, OnStability, OnCandidates, AtSite, Writing
    <2>2. CASE UNCHANGED vars
      BY <2>2 DEF CollectionInv, InOrder, BuiltOnDisk, OnStability, OnCandidates, AtSite, Writing,
                  SaysYes, Key, vars, workVars
    <2> QED BY <1>2, <2>1, <2>2, NoThread
  <1> QED BY <1>1, <1>2 DEF Next, Run

-----------------------------------------------------------------------------
(* A thread that is past a candidate stays past it until it has finished.  *)
LEMMA StaysPast ==
  ASSUME CollectionInv, NEW w \in Workers, Work(w), NEW key \in Candidates,
         Active(w), pc[w] = "finish" \/ Past(w, key), Active(w)'
  PROVE  task'[w] = task[w] /\ (pc'[w] = "finish" \/ Past(w, key)')
  <1> USE DEF CollectionInv, Active
  <1>1. at[w] \in Nat /\ key[4] \in Nat /\ key[3] \in Nat /\ pending[w].unit \in Units
    BY KeyParts, SiteNumbers DEF TypeOK
  <1>2. pc[w] # "finish"
    BY DEF Work, Take, Record, Lose, Unreadable, Halt, Truncate, Fill, BasePassed, NotUsable,
           FindSites, NextSite, RejectRepeat, Plant, Measure, Keep, Reject, FinishTask,
           CountUnreadable, Raise, Owed, Known, Units, Goto, TypeOK
  <1>3. OnCandidates(w) /\ trial[w] = key[3] /\ key[4] < at[w]
    BY <1>2 DEF Past
  <1>4. \/ Unreadable(w) \/ Halt(w) \/ Truncate(w) \/ Fill(w) \/ NextSite(w) \/ RejectRepeat(w)
        \/ Plant(w) \/ Measure(w) \/ Keep(w) \/ Reject(w)
    BY <1>2, <1>3 DEF Work, Take, Record, Lose, BasePassed, NotUsable, FindSites, FinishTask,
           CountUnreadable, Owed, Known, OnCandidates, AtSite, Writing
  <1>5. CASE Unreadable(w) \/ Halt(w)
    BY <1>5 DEF Unreadable, Halt, Raise, Goto, TypeOK
  <1>6. CASE Truncate(w) \/ Fill(w)
    <2>1. /\ pending[w].unit = "candidate" /\ UNCHANGED <<task, trial, at, pending>>
          /\ pc'[w] \in {"fill", "candidate"}
      BY <1>3, <1>6 DEF Truncate, Fill, Goto, TypeOK, OnCandidates, AtSite, Writing, workVars
    <2> QED BY <1>3, <2>1 DEF Past, OnCandidates, AtSite, Writing
  <1>7. CASE RejectRepeat(w) \/ Measure(w)
    <2>1. PICK says \in Readable : Decide(w, "candidate", says)
      BY <1>7 DEF RejectRepeat, Measure, Readable
    <2>2. /\ pending'[w].unit = "candidate" /\ UNCHANGED <<task, trial, at>> /\ pc'[w] = "truncate"
      BY <2>1 DEF Decide, Goto, TypeOK
    <2> QED BY <1>3, <2>2 DEF Past, OnCandidates, AtSite, Writing
  <1>8. CASE NextSite(w) \/ Plant(w) \/ Keep(w) \/ Reject(w)
    <2>1. /\ UNCHANGED <<task, trial>> /\ pc'[w] \in {"next", "candidate", "measure", "finish"}
          /\ at'[w] \in {at[w], at[w] + 1}
      BY <1>8 DEF NextSite, Plant, Keep, Reject, Goto, TypeOK, workVars
    <2> QED BY <1>1, <1>3, <2>1 DEF Past, OnCandidates, AtSite
  <1> QED BY <1>4, <1>5, <1>6, <1>7, <1>8

(* The item a thread hands over is one its task has not handed over yet.   *)
LEMMA NewItem ==
  ASSUME CollectionInv, NEW w \in Workers, Keep(w)
  PROVE  /\ Key(w, "candidate") \in Candidates
         /\ Key(w, "candidate")[2] = task[w] /\ Key(w, "candidate")[3] = trial[w]
         /\ Key(w, "candidate")[4] = at[w]
         /\ at[w] \in Nat /\ at'[w] = at[w] + 1 /\ Active(w)
         /\ items[Key(w, "candidate")] = 0
         /\ journal[Key(w, "candidate")] = "yes"
         /\ items' = [items EXCEPT ![Key(w, "candidate")] = 1]
  <1> USE DEF CollectionInv
  <1>1. Active(w) /\ at[w] \in Sites /\ pc[w] = "candidate" /\ Running
    BY DEF Keep, Known, Active, InOrder, BuiltOnDisk, AtSite
  <1>2. /\ Key(w, "candidate") \in Candidates
        /\ Key(w, "candidate") = <<"candidate", task[w], trial[w], at[w]>>
        /\ at[w] \in Nat /\ at'[w] = at[w] + 1
    BY <1>1, KeyOfThread, SiteNumbers DEF Keep, TypeOK
  <1>3. items[Key(w, "candidate")] = 0
    BY <1>1, <1>2 DEF HandedOver, Past
  <1> QED BY <1>1, <1>2, <1>3 DEF Keep, Known

(* Whatever a thread does, a task with an item is not queued again.        *)
LEMMA HandedOverStep ==
  ASSUME CollectionInv, [Next]_vars
  PROVE  HandedOver'
  <1> USE DEF CollectionInv
  <1>1. CASE StartProcess \/ Crash
    BY <1>1 DEF StartProcess, Crash, Fresh, HandedOver, Nothing
  <1>2. CASE NextPass
    BY <1>2 DEF NextPass, Quiet, Drained, Idle, HandedOver, Active
  <1>3. CASE Unwind \/ EndStopped \/ EndExhausted \/ Park
    <2>1. raised \subseteq {"stop", "unreadable"} /\ stopped \in {"no", "target", "time"}
      BY DEF TypeOK
    <2>2. ~Running'
      BY <1>3, <2>1 DEF Unwind, EndStopped, EndExhausted, Park, StopReasons, End, Running
    <2> QED BY <2>2 DEF HandedOver
  <1>4. CASE UNCHANGED vars
    BY <1>4 DEF HandedOver, Running, Active, Past, OnCandidates, AtSite, Writing, vars, procVars,
                poolVars, workVars
  <1>5. ASSUME NEW w \in Workers, Work(w)
        PROVE  HandedOver'
    <2> SUFFICES ASSUME NEW key \in Candidates, items'[key] # 0
                 PROVE  /\ key[2] \notin queue' \union failed'
                        /\ \A v \in Workers : Active(v)' /\ task'[v] = key[2] =>
                             pc'[v] = "finish" \/ Past(v, key)'
      BY DEF HandedOver
    <2>1. Running /\ \A v \in Workers \ {w} :
              /\ pc'[v] = pc[v] /\ task'[v] = task[v] /\ trial'[v] = trial[v]
              /\ at'[v] = at[v] /\ pending'[v] = pending[v]
      BY <1>5, OneThread
    <2>2. CASE items[key] = 0
      <3>1. Keep(w)
        BY <1>5, <2>2 DEF Work, Take, Record, Lose, Unreadable, Halt, Raise, Truncate, Fill,
               BasePassed, NotUsable, FindSites, NextSite, RejectRepeat, Plant, Measure, Decide,
               Reject, FinishTask, CountUnreadable
      <3>2. key = Key(w, "candidate")
        BY <2>2, <3>1, NewItem DEF TypeOK
      <3>3. key[2] = task[w] /\ key[3] = trial[w] /\ key[4] = at[w] /\ Active(w)
        BY <3>1, <3>2, NewItem
      <3>4. /\ UNCHANGED <<queue, failed, task, trial>> /\ pc[w] = "candidate" /\ pc'[w] = "next"
            /\ at'[w] = at[w] + 1 /\ at[w] \in Nat
        BY <3>1, NewItem DEF Keep, Known, Goto, TypeOK, poolVars
      <3>5. key[2] \notin queue' \union failed'
        BY <3>3, <3>4 DEF Alone
      <3>6. \A v \in Workers \ {w} : Active(v) => task[v] # key[2]
        BY <3>3 DEF Alone
      <3> QED BY <2>1, <3>3, <3>4, <3>5, <3>6 DEF Active, Past, OnCandidates
    <2>3. CASE items[key] # 0
      <3>1. /\ key[2] \notin queue \union failed
            /\ \A v \in Workers : Active(v) /\ task[v] = key[2] => pc[v] = "finish" \/ Past(v, key)
        BY <2>1, <2>3 DEF HandedOver
      <3>2. ASSUME NEW v \in Workers, Active(v)', task'[v] = key[2]
            PROVE  pc'[v] = "finish" \/ Past(v, key)'
        <4>1. CASE v # w
          BY <2>1, <3>1, <3>2, <4>1 DEF Active, Past, OnCandidates, AtSite, Writing
        <4>2. CASE v = w /\ Active(w)
          <5>1. task'[w] = task[w]
            BY <1>5, <4>2 DEF Work, Take, Record, Lose, Unreadable, Halt, Raise, Truncate, Fill,
               BasePassed, NotUsable, FindSites, NextSite, RejectRepeat, Plant, Measure, Decide,
               Keep, Reject, FinishTask, CountUnreadable, workVars, Active
          <5> QED BY <1>5, <3>1, <3>2, <4>2, <5>1, StaysPast
        <4>3. CASE v = w /\ ~Active(w)
          <5>1. PICK t \in Tasks : Take(w, t)
            BY <1>5, <4>3 DEF Work, Record, Lose, Unreadable, Halt, Truncate, Fill,
               BasePassed, NotUsable, FindSites, NextSite, RejectRepeat, Plant, Measure,
               Keep, Reject, FinishTask, CountUnreadable, Owed, Known, Active, Units
          <5>2. t \in queue /\ task'[w] = t
            BY <3>2, <4>3, <5>1 DEF Take, TypeOK, Active
          <5> QED BY <3>1, <3>2, <4>3, <5>2
        <4> QED BY <4>1, <4>2, <4>3
      <3>3. queue' \subseteq queue
        BY <1>5 DEF Work, Take, Record, Lose, Unreadable, Halt, Raise, Truncate, Fill,
               BasePassed, NotUsable, FindSites, NextSite, RejectRepeat, Plant, Measure, Decide,
               Keep, Reject, FinishTask, CountUnreadable, poolVars
      <3>4. key[2] \notin failed'
        <4>1. CASE \E unit \in Units : Lose(w, unit)
          <5>1. /\ failed' = failed \union {task[w]} /\ Active(w)
                /\ pc[w] # "finish" /\ ~OnCandidates(w)
            BY <4>1 DEF Lose, Owed, Active, OnCandidates, AtSite, Writing
          <5> QED BY <3>1, <5>1 DEF Past
        <4>2. CASE ~\E unit \in Units : Lose(w, unit)
          <5>1. UNCHANGED failed
            BY <1>5, <4>2 DEF Work, Take, Record, Unreadable, Halt, Raise, Truncate, Fill,
               BasePassed, NotUsable, FindSites, NextSite, RejectRepeat, Plant, Measure, Decide,
               Keep, Reject, FinishTask, CountUnreadable, poolVars
          <5> QED BY <3>1, <5>1
        <4> QED BY <4>1, <4>2
      <3> QED BY <3>1, <3>2, <3>3, <3>4
    <2> QED BY <2>2, <2>3
  <1> QED BY <1>1, <1>2, <1>3, <1>4, <1>5 DEF Next, Run

-----------------------------------------------------------------------------
(* What a task leaves behind when its thread is done with it.              *)
LEMMA FinishedIsSomewhere ==
  ASSUME CollectionInv, NEW w \in Workers, Work(w), pc'[w] = "finish"
  PROVE  task'[w] \in settled' \union failed'
  <1>1. \/ \E unit \in Units : Lose(w, unit)
        \/ NotUsable(w) \/ NextSite(w)
    BY DEF CollectionInv, TypeOK, Work, Take, Record, Unreadable, Halt, Raise, Truncate, Fill,
           BasePassed, FindSites, RejectRepeat, Plant, Measure, Decide, Keep, Reject, FinishTask,
           CountUnreadable, Goto, Units
  <1> QED BY <1>1 DEF CollectionInv, TypeOK, Lose, NotUsable, NextSite, Known, Goto, workVars

(* A task leaves a thread's hands finished, or with an exception.          *)
LEMMA NobodyForgottenStep ==
  ASSUME CollectionInv, [Next]_vars
  PROVE  NobodyForgotten'
  <1> USE DEF CollectionInv
  <1>1. CASE StartProcess \/ Crash
    BY <1>1 DEF StartProcess, Crash, Fresh, NobodyForgotten, Active
  <1>2. CASE NextPass
    BY <1>2 DEF NextPass, Quiet, Drained, Idle, NobodyForgotten, Active
  <1>3. CASE Unwind \/ EndStopped \/ EndExhausted \/ Park
    <2>1. raised \subseteq {"stop", "unreadable"} /\ stopped \in {"no", "target", "time"}
      BY DEF TypeOK
    <2>2. ~Running'
      BY <1>3, <2>1 DEF Unwind, EndStopped, EndExhausted, Park, StopReasons, End, Running
    <2> QED BY <2>2 DEF NobodyForgotten
  <1>4. CASE UNCHANGED vars
    BY <1>4 DEF NobodyForgotten, Running, Active, vars, procVars, poolVars, workVars
  <1>5. ASSUME NEW w \in Workers, Work(w)
        PROVE  NobodyForgotten'
    <2> SUFFICES ASSUME raised' = {}
                 PROVE  /\ \A v \in Workers : pc'[v] = "finish"
                          => task'[v] \in settled' \union failed'
                        /\ stopped' = "no" =>
                             \A t \in Tasks : \/ t \in queue' \union failed' \union settled'
                                              \/ \E v \in Workers : Active(v)' /\ task'[v] = t
      BY DEF NobodyForgotten
    <2>1. Running /\ \A v \in Workers \ {w} : pc'[v] = pc[v] /\ task'[v] = task[v]
      BY <1>5, OneThread
    <2>2. /\ raised = {} /\ settled \subseteq settled' /\ failed \subseteq failed'
          /\ stopped' = "no" => stopped = "no"
      BY <1>5 DEF Work, Take, Record, Lose, Unreadable, Halt, Raise, Truncate, Fill,
             BasePassed, NotUsable, FindSites, NextSite, RejectRepeat, Plant, Measure, Decide,
             Keep, Reject, FinishTask, CountUnreadable, poolVars
    <2>3. /\ \A v \in Workers : pc[v] = "finish" => task[v] \in settled \union failed
          /\ stopped = "no" =>
               \A t \in Tasks : \/ t \in queue \union failed \union settled
                                \/ \E v \in Workers : Active(v) /\ task[v] = t
      BY <2>1, <2>2 DEF NobodyForgotten
    <2>4. \A v \in Workers : pc'[v] = "finish" => task'[v] \in settled' \union failed'
      BY <1>5, <2>1, <2>2, <2>3, FinishedIsSomewhere
    <2>5. ASSUME stopped' = "no", NEW t \in Tasks
          PROVE  \/ t \in queue' \union failed' \union settled'
                 \/ \E v \in Workers : Active(v)' /\ task'[v] = t
      <3>1. CASE t \in failed \union settled
        BY <2>2, <3>1
      <3>2. CASE t \in queue
        <4>1. CASE Take(w, t)
          BY <2>5, <4>1 DEF Take, Goto, TypeOK, Active, StopReasons
        <4>2. CASE ~Take(w, t)
          BY <1>5, <3>2, <4>2 DEF Work, Take, Record, Lose, Unreadable, Halt, Raise, Truncate, Fill,
             BasePassed, NotUsable, FindSites, NextSite, RejectRepeat, Plant, Measure, Decide,
             Keep, Reject, FinishTask, CountUnreadable, poolVars
        <4> QED BY <4>1, <4>2
      <3>3. ASSUME NEW v \in Workers, Active(v), task[v] = t
            PROVE  \/ t \in queue' \union failed' \union settled'
                   \/ \E u \in Workers : Active(u)' /\ task'[u] = t
        <4>1. CASE v # w
          BY <2>1, <3>3, <4>1 DEF Active
        <4>2. CASE v = w /\ FinishTask(w)
          BY <2>2, <2>3, <3>3, <4>2 DEF FinishTask
        <4>3. CASE v = w /\ ~FinishTask(w)
          <5>1. Active(w)' /\ task'[w] = task[w]
            BY <1>5, <3>3, <4>3 DEF Work, Take, Record, Lose, Unreadable, Halt, Raise, Truncate,
               Fill, BasePassed, NotUsable, FindSites, NextSite, RejectRepeat, Plant, Measure,
               Decide, Keep, Reject, CountUnreadable, Goto, TypeOK, Active, Units, workVars
          <5> QED BY <3>3, <4>3, <5>1
        <4> QED BY <4>1, <4>2, <4>3
      <3> QED BY <2>2, <2>3, <2>5, <3>1, <3>2, <3>3
    <2> QED BY <2>4, <2>5
  <1> QED BY <1>1, <1>2, <1>3, <1>4, <1>5 DEF Next, Run

(* The count is refreshed by every task that ends.                         *)
LEMMA CountedStep ==
  ASSUME CollectionInv, [Next]_vars
  PROVE  Counted'
  <1> USE DEF CollectionInv
  <1>0. UNCHANGED journal => KeptOnDisk' = KeptOnDisk
    BY DEF KeptOnDisk
  <1>1. CASE StartProcess \/ Crash
    BY <1>0, <1>1 DEF StartProcess, Crash, Counted, Running
  <1>2. CASE NextPass
    BY <1>0, <1>2 DEF NextPass, Quiet, Drained, Idle, Counted, Active
  <1>3. CASE Unwind \/ EndStopped \/ EndExhausted \/ Park
    <2>1. raised \subseteq {"stop", "unreadable"} /\ stopped \in {"no", "target", "time"}
      BY DEF TypeOK
    <2>2. ~Running'
      BY <1>3, <2>1 DEF Unwind, EndStopped, EndExhausted, Park, StopReasons, End, Running
    <2> QED BY <2>2 DEF Counted
  <1>4. CASE UNCHANGED vars
    BY <1>0, <1>4 DEF Counted, Running, Active, vars, procVars, poolVars
  <1>5. ASSUME NEW w \in Workers, Work(w)
        PROVE  Counted'
    <2> SUFFICES ASSUME raised' = {}, \A v \in Workers : ~Active(v)'
                 PROVE  kept' = KeptOnDisk'
      BY DEF Counted
    <2>1. Running /\ \A v \in Workers \ {w} : pc'[v] = pc[v]
      BY <1>5, OneThread
    <2>2. CASE FinishTask(w)
      BY <1>0, <2>2 DEF FinishTask
    <2>3. CASE \E t \in Tasks : Take(w, t)
      <3>1. raised = {} /\ UNCHANGED <<journal, kept>> /\ pc[w] = "idle"
        BY <2>3 DEF Take
      <3>2. \A v \in Workers : ~Active(v)
        BY <2>1, <3>1 DEF Active
      <3> QED BY <1>0, <2>1, <3>1, <3>2 DEF Counted
    <2>4. CASE ~FinishTask(w) /\ ~\E t \in Tasks : Take(w, t)
      BY <1>5, <2>4 DEF Work, Record, Lose, Unreadable, Halt, Raise, Truncate,
               Fill, BasePassed, NotUsable, FindSites, NextSite, RejectRepeat, Plant, Measure,
               Decide, Keep, Reject, CountUnreadable, Goto, TypeOK, Active, Units
    <2> QED BY <2>2, <2>3, <2>4
  <1> QED BY <1>1, <1>2, <1>3, <1>4, <1>5 DEF Next, Run

(* Whatever is built on a decision finds it on disk, in this process and   *)
(* in the ones after it.                                                   *)
LEMMA FunnelStep ==
  ASSUME CollectionInv, [Next]_vars
  PROVE  FunnelIsOnDisk'
  <1> USE DEF CollectionInv
  <1>1. CASE StartProcess \/ Crash
    BY <1>1 DEF StartProcess, Crash, Fresh, FunnelIsOnDisk, Nothing
  <1>2. CASE NextPass \/ UNCHANGED vars
    BY <1>2 DEF NextPass, FunnelIsOnDisk, Running, vars, procVars
  <1>3. CASE Unwind \/ EndStopped \/ EndExhausted \/ Park
    <2>1. raised \subseteq {"stop", "unreadable"} /\ stopped \in {"no", "target", "time"}
      BY DEF TypeOK
    <2>2. ~Running' /\ UNCHANGED <<journal, settled>>
      BY <1>3, <2>1 DEF Unwind, EndStopped, EndExhausted, Park, StopReasons, End, Running
    <2> QED BY <2>2 DEF FunnelIsOnDisk
  <1>4. ASSUME NEW w \in Workers, Work(w)
        PROVE  FunnelIsOnDisk'
    <2>1. Running
      BY <1>4, OneThread
    <2>2. \A key \in Keys : journal[key] \in Readable => journal'[key] = journal[key]
      BY <1>4, RecordsStay
    <2>3. ASSUME NEW key \in Candidates, journal'[key] # "absent"
          PROVE  /\ journal'[<<"base", key[2], key[3], 0>>] = "yes"
                 /\ journal'[<<"stability", key[2], key[3], 0>>] = "yes"
      <3>1. /\ <<"base", key[2], key[3], 0>> \in Keys
            /\ <<"stability", key[2], key[3], 0>> \in Keys
        BY KeyParts
      <3>2. CASE journal[key] # "absent"
        BY <2>2, <3>1, <3>2 DEF FunnelIsOnDisk, Readable
      <3>3. CASE journal[key] = "absent"
        <4>1. Active(w) /\ key = Key(w, pending[w].unit) /\ pc[w] \in {"truncate", "fill"}
          BY <1>4, <2>3, <3>3, KeyParts, OneRecord
        <4>2. pending[w].unit = "candidate"
          BY <4>1, KeyParts DEF Key, Candidates
        <4>3. SaysYes(w, "base") /\ SaysYes(w, "stability")
          BY <4>1, <4>2 DEF InOrder, BuiltOnDisk, OnCandidates, AtSite, Writing
        <4>4. key[2] = task[w] /\ key[3] = trial[w]
          BY <4>1, <4>2 DEF Key
        <4> QED BY <2>2, <3>1, <4>3, <4>4 DEF SaysYes, Readable
      <3> QED BY <3>2, <3>3
    <2>4. ASSUME NEW t \in settled'
          PROVE  \E k \in 1..Trials : journal'[<<"base", t, k, 0>>] \in Readable
      <3>1. t \in Tasks
        <4>1. TypeOK'
          BY CollectionTypesStep
        <4> QED BY <2>4, <4>1 DEF TypeOK
      <3>2. \A k \in 1..Trials : <<"base", t, k, 0>> \in Keys
        BY <3>1, KeyParts
      <3>3. \E k \in 1..Trials : journal[<<"base", t, k, 0>>] \in Readable
        <4>1. CASE t \in settled
          BY <4>1 DEF FunnelIsOnDisk
        <4>2. CASE t \notin settled
          <5>1. NotUsable(w) \/ NextSite(w)
            BY <1>4, <2>4, <4>2 DEF Work, Take, Record, Lose, Unreadable, Halt, Raise, Truncate,
               Fill, BasePassed, FindSites, RejectRepeat, Plant, Measure, Decide, Keep, Reject,
               FinishTask, CountUnreadable
          <5>2. t = task[w] /\ Active(w) /\ trial[w] \in 1..Trials
            BY <2>4, <4>2, <5>1 DEF NotUsable, NextSite, Known, Active, TypeOK
          <5>3. journal[<<"base", task[w], trial[w], 0>>] \in Readable
            BY <5>1 DEF NotUsable, NextSite, Known, InOrder, BuiltOnDisk, OnStability,
               OnCandidates, SaysYes, Key, Readable
          <5> QED BY <5>2, <5>3
        <4> QED BY <4>1, <4>2
      <3> QED BY <2>2, <3>2, <3>3
    <2>5. ASSUME NEW key \in Candidates
          PROVE  items'[key] <= 1 /\ (items'[key] = 1 => journal'[key] = "yes")
      <3>1. CASE Keep(w)
        <4>1. items'[key] = IF key = Key(w, "candidate") THEN 1 ELSE items[key]
          BY <3>1, NewItem DEF TypeOK
        <4>2. journal[Key(w, "candidate")] = "yes" /\ UNCHANGED journal
          BY <3>1, NewItem DEF Keep
        <4> QED BY <2>1, <4>1, <4>2 DEF FunnelIsOnDisk
      <3>2. CASE ~Keep(w)
        <4>1. UNCHANGED items
          BY <1>4, <3>2 DEF Work, Take, Record, Lose, Unreadable, Halt, Raise, Truncate,
               Fill, BasePassed, NotUsable, FindSites, NextSite, RejectRepeat, Plant, Measure,
               Decide, Reject, FinishTask, CountUnreadable
        <4> QED BY <2>1, <2>2, <4>1, KeyParts DEF FunnelIsOnDisk, Readable
      <3> QED BY <3>1, <3>2
    <2> QED BY <2>3, <2>4, <2>5 DEF FunnelIsOnDisk
  <1> QED BY <1>1, <1>2, <1>3, <1>4 DEF Next, Run

(* A collection ends with every task through the funnel, or says which     *)
(* are not.                                                                *)
LEMMA DroppedStep ==
  ASSUME CollectionInv, [Next]_vars
  PROVE  NothingIsDropped'
  <1> USE DEF CollectionInv
  <1>1. CASE StartProcess \/ Crash
    BY <1>1 DEF StartProcess, Crash, NothingIsDropped
  <1>2. CASE Unwind \/ EndStopped
    <2>1. raised \subseteq {"stop", "unreadable"} /\ stopped \in {"no", "target", "time"}
      BY DEF TypeOK
    <2>2. proc' \notin {"exhausted", "parked"}
      BY <1>2, <2>1 DEF Unwind, EndStopped, StopReasons, End
    <2> QED BY <2>2 DEF NothingIsDropped
  <1>3. CASE EndExhausted \/ Park
    <2>1. Tasks = failed \union settled
      <3>1. Quiet
        BY <1>3 DEF EndExhausted, Park
      <3>2. \A t \in Tasks : t \in failed \union settled
        BY <3>1 DEF Quiet, Drained, Idle, NobodyForgotten, Active
      <3> QED BY <3>2 DEF TypeOK
    <2> QED BY <1>3, <2>1 DEF EndExhausted, Park, End, NothingIsDropped
  <1>4. CASE NextPass \/ \E w \in Workers : Work(w)
    <2>1. proc' = "running"
      BY <1>4, OneThread DEF NextPass, Quiet, Drained, Idle, Running
    <2> QED BY <2>1 DEF NothingIsDropped
  <1>5. CASE UNCHANGED vars
    BY <1>5 DEF NothingIsDropped, vars, procVars
  <1> QED BY <1>1, <1>2, <1>3, <1>4, <1>5 DEF Next, Run

-----------------------------------------------------------------------------
(* The invariant of a collection, whatever threads, passes and processes   *)
(* do to its journal.                                                      *)
THEOREM CollectionInvariant == Spec => []CollectionInv
  <1>1. Init => CollectionInv
    BY CollectionStart
  <1>2. CollectionInv /\ [Next]_vars => CollectionInv'
    <2> SUFFICES ASSUME CollectionInv, [Next]_vars PROVE CollectionInv'
      OBVIOUS
    <2>1. TypeOK' /\ Alone' /\ InOrder'
      BY CollectionTypesStep, AloneStep, InOrderStep
    <2>2. HandedOver' /\ NobodyForgotten' /\ Counted'
      BY HandedOverStep, NobodyForgottenStep, CountedStep
    <2> QED BY <2>1, <2>2, FunnelStep, DroppedStep DEF CollectionInv
  <1> QED BY <1>1, <1>2, PTL DEF Spec

(* The journal, the pool and the threads keep their types.                 *)
THEOREM CollectionTypes == Spec => []TypeOK
  <1>1. CollectionInv => TypeOK
    BY DEF CollectionInv
  <1> QED BY <1>1, CollectionInvariant, PTL

(* inject.py: nothing is lost between passes, threads and processes.       *)
THEOREM CollectionLosesNothing == Spec => []NothingIsLost
  <1>1. CollectionInv => NothingIsLost
    BY DEF CollectionInv, NothingIsLost
  <1> QED BY <1>1, CollectionInvariant, PTL

(* journal.py: a record that can be read is never written again.           *)
THEOREM CollectionIsFinal == Spec => DecisionsAreFinal
  <1>1. CollectionInv /\ [Next]_vars =>
          [\A key \in Keys : journal[key] \in Readable => journal'[key] = journal[key]]_vars
    <2> SUFFICES ASSUME CollectionInv, Next, NEW key \in Keys, journal[key] \in Readable
                 PROVE  journal'[key] = journal[key]
      OBVIOUS
    <2> QED BY NoThread, RecordsStay DEF Next, Run
  <1> QED BY <1>1, CollectionInvariant, PTL DEF Spec, DecisionsAreFinal

(* inject.py, _run_parallel: beyond the target no thread takes a task once *)
(* everything that was in flight has been counted.                         *)
THEOREM CollectionStops == Spec => NothingNewBeyondTarget
  <1>1. CollectionInv /\ [Next]_vars =>
          [\A w \in Workers :
             raised = {} /\ pc[w] = "idle" /\ pc'[w] = "base" /\ KeptOnDisk >= Target =>
               \E v \in Workers \ {w} : pc[v] # "idle"]_vars
    <2> SUFFICES ASSUME CollectionInv, Next, NEW w \in Workers, raised = {}, pc[w] = "idle",
                        pc'[w] = "base", KeptOnDisk >= Target,
                        \A v \in Workers \ {w} : pc[v] = "idle"
                 PROVE  FALSE
      OBVIOUS
    <2>1. PICK v \in Workers : Work(v)
      BY NoThread DEF Next, Run, vars
    <2>2. v = w
      BY <2>1, OneThread DEF CollectionInv
    <2>3. PICK t \in Tasks : Take(w, t)
      BY <2>1, <2>2 DEF Work, Record, Lose, Unreadable, Halt, Truncate, Fill, BasePassed,
         NotUsable, FindSites, NextSite, RejectRepeat, Plant, Measure, Keep, Reject, FinishTask,
         CountUnreadable, Owed, Known, Units
    <2>4. kept < Target /\ Running
      BY <2>3 DEF Take, MayGoOn
    <2>5. kept = KeptOnDisk
      BY <2>4 DEF CollectionInv, Counted, Active
    <2> QED BY <2>4, <2>5, KeptIsNumber DEF CollectionInv, TypeOK
  <1> QED BY <1>1, CollectionInvariant, PTL DEF Spec, NothingNewBeyondTarget
=============================================================================

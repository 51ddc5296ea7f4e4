------------------------- MODULE ForkExecutorProofs -------------------------
(***************************************************************************)
(* Proofs about buying draws, for any number of draws, processes, retries, *)
(* ids and faults, and whichever processes take the lock: a draw is bought *)
(* once (or once by each side), an id has one writer, and what a draw is   *)
(* said to have been is on the tape.                                       *)
(***************************************************************************)
EXTENDS ForkExecutor, FiniteSetTheorems, WellFoundedInduction, TLAPS

USE ExecutorAssumption

Working == {"pick", "start", "running"}

(* Processes whose thread missed the draw on the tape and is buying it.    *)
Late(d) == {p \in Procs : pc[<<p, d>>] \in Working}

(* Where a thread can stand.                                               *)
Standing ==
  /\ \A p, q \in active \cap lockers : p = q
  /\ \A t \in Threads :
       /\ pc[t] # "idle" => Proc(t) \in active
       /\ pc[t] \in Working \cup {"lookup"} => attempt[t] < InfraRetries
       /\ id[t].draw = Draw(t)

(* Who writes which id.                                                    *)
Written ==
  /\ \A i \in Ids : outcome[i] # "none" => i \in started
  /\ \A t \in Threads :
       /\ pc[t] \in {"running", "recorded"} => id[t] \in started
       /\ pc[t] = "running" => outcome[id[t]] = "none"
       /\ pc[t] = "recorded" => outcome[id[t]] # "none"
  /\ \A t, u \in Threads :
       t # u /\ {pc[t], pc[u]} \subseteq {"running", "recorded"} => id[t] # id[u]

(* Forks that ended and forks that may still end, of one draw.             *)
Paid(d) ==
  /\ Recorded(d) = {} <=> bought[d] = 0
  /\ bought[d] + Cardinality(Late(d)) <= AtOnce

(* Answers are on the tape, and under the lock they are all one.           *)
Told(d) ==
  /\ \A passed \in given[d] : \E i \in Recorded(d) : outcome[i] = passed
  /\ lockers = Procs => \A i, j \in Recorded(d) : outcome[i] = outcome[j]

ForkInv ==
  /\ TypeOK /\ Standing /\ Written
  /\ \A d \in Draws : Paid(d) /\ Told(d)

-----------------------------------------------------------------------------
(***************************************************************************)
(* Ids.                                                                    *)
(***************************************************************************)
(* A set of naturals that is not empty has a least element.                *)
LEMMA LeastOfNaturals ==
  ASSUME NEW S, S \subseteq Nat, S # {}
  PROVE  \E m \in S : \A n \in S : m <= n
  <1>1. PICK m \in S : \A n \in S : <<n, m>> \notin OpToRel(<, Nat)
    BY WFMin, NatLessThanWellFounded, Zenon
  <1>2. \A n \in S : ~(n < m)
    BY <1>1, Zenon DEF OpToRel
  <1> QED BY <1>2

(* The id an attempt takes is free.                                        *)
LEMMA FirstFreeIsFree ==
  ASSUME NEW d, NEW a, Free(d, a) # {}
  PROVE  FirstFree(d, a) \in Free(d, a)
  <1> DEFINE S == {i.r : i \in Free(d, a)}
  <1>1. S \subseteq Nat /\ S # {}
    BY DEF Free, Ids
  <1>2. PICK m \in S : \A n \in S : m <= n
    BY <1>1, LeastOfNaturals
  <1>3. PICK i \in Free(d, a) : m = i.r
    BY <1>2
  <1>4. \A j \in Free(d, a) : i.r <= j.r
    BY <1>2, <1>3
  <1> QED BY <1>3, <1>4 DEF FirstFree

(* The rank of an id is a natural number.                                  *)
LEMMA RankIsNatural ==
  ASSUME NEW i \in Ids
  PROVE  Rank(i) \in Nat
  <1>1. i.a \in Nat /\ i.r \in Nat
    BY DEF Ids
  <1>2. \A x \in Nat : x * (MaxIds + 1) \in Nat
    OBVIOUS
  <1>3. (IF i.a = 0 /\ i.r > 0 THEN InfraRetries ELSE i.a) \in Nat
    BY <1>1
  <1> QED BY <1>1, <1>2, <1>3 DEF Rank

(* What a look-up returns is recorded.                                     *)
LEMMA FirstRecordedIsRecorded ==
  ASSUME NEW d, Recorded(d) # {}
  PROVE  FirstRecorded(d) \in Recorded(d)
  <1> DEFINE S == {Rank(i) : i \in Recorded(d)}
  <1>0. Recorded(d) \subseteq Ids
    BY DEF Recorded, Family
  <1>1. S \subseteq Nat /\ S # {}
    BY <1>0, RankIsNatural
  <1>2. PICK m \in S : \A n \in S : m <= n
    BY <1>1, LeastOfNaturals
  <1>3. PICK i \in Recorded(d) : m = Rank(i)
    BY <1>2
  <1>4. \A j \in Recorded(d) : Rank(i) <= Rank(j)
    BY <1>2, <1>3
  <1> QED BY <1>3, <1>4 DEF FirstRecorded

-----------------------------------------------------------------------------
(* At first nobody evaluates and nothing is on the tape.                   *)
LEMMA ForkStart == Init => ForkInv
  <1> SUFFICES ASSUME Init PROVE ForkInv
    OBVIOUS
  <1>1. TypeOK
    BY DEF Init, TypeOK, Ids, Threads, Draw, Resting
  <1>2. Standing /\ Written
    BY DEF Init, Standing, Written, Working, Threads, Proc, Draw
  <1>3. ASSUME NEW d \in Draws
        PROVE  Paid(d) /\ Told(d)
    <2>1. Recorded(d) = {} /\ bought[d] = 0 /\ given[d] = {}
      BY DEF Init, Recorded, Family
    <2>2. Late(d) = {}
      BY DEF Init, Late, Working, Threads
    <2>3. AtOnce \in Nat
      BY FS_Subset, FS_CardinalityType DEF AtOnce
    <2> QED BY <2>1, <2>2, <2>3, FS_EmptySet DEF Paid, Told
  <1> QED BY <1>1, <1>2, <1>3 DEF ForkInv

(* Every step keeps the types.                                             *)
LEMMA ForkTypesStep ==
  ASSUME TypeOK, Standing, Written, [Next]_vars
  PROVE  TypeOK'
  <1> USE DEF TypeOK, Standing, Goto, Resting, Working
  <1>1. ASSUME NEW p \in Procs, Enter(p) \/ Leave(p) \/ Crash(p)
        PROVE  TypeOK'
    BY <1>1 DEF Enter, Leave, Crash
  <1>2. ASSUME NEW t \in Threads, Request(t) \/ Miss(t) \/ NoFreeId(t) \/ Fails(t)
        PROVE  TypeOK'
    BY <1>2 DEF Request, Miss, NoFreeId, Fails
  <1>3. ASSUME NEW t \in Threads, Reuse(t)
        PROVE  TypeOK'
    <2>1. FirstRecorded(Draw(t)) \in Recorded(Draw(t))
      BY <1>3, FirstRecordedIsRecorded DEF Reuse
    <2>2. outcome[FirstRecorded(Draw(t))] \in {"pass", "fail"}
      BY <2>1 DEF Recorded, Family
    <2>3. Draw(t) \in Draws
      BY DEF Threads, Draw
    <2> QED BY <1>3, <2>2, <2>3 DEF Reuse
  <1>4. ASSUME NEW t \in Threads, Pick(t)
        PROVE  TypeOK'
    <2>1. FirstFree(Draw(t), attempt[t]) \in Ids
      BY <1>4, FirstFreeIsFree DEF Pick, Free
    <2> QED BY <1>4, <2>1 DEF Pick
  <1>5. ASSUME NEW t \in Threads, StartRun(t)
        PROVE  TypeOK'
    BY <1>5 DEF StartRun
  <1>6. ASSUME NEW t \in Threads, RunEnds(t)
        PROVE  TypeOK'
    <2>1. Draw(t) \in Draws
      BY DEF Threads, Draw
    <2> QED BY <1>6, <2>1 DEF RunEnds
  <1>7. ASSUME NEW t \in Threads, LostRace(t) \/ InfraFails(t)
        PROVE  TypeOK'
    <2>1. attempt[t] \in Nat /\ attempt[t] < InfraRetries
      BY <1>7 DEF LostRace, InfraFails
    <2>2. attempt[t] + 1 \in 0..InfraRetries
      BY <2>1
    <2> QED BY <1>7, <2>2 DEF LostRace, InfraFails, Retry
  <1>8. CASE UNCHANGED vars
    BY <1>8 DEF vars
  <1>9. ASSUME NEW t \in Threads, Answer(t)
        PROVE  TypeOK'
    <2>1. Draw(t) \in Draws
      BY DEF Threads, Draw
    <2>2. outcome[id[t]] \in {"pass", "fail"}
      BY <1>9 DEF Answer, Written
    <2> QED BY <1>9, <2>1, <2>2 DEF Answer
  <1> QED BY <1>1, <1>2, <1>3, <1>4, <1>5, <1>6, <1>7, <1>8, <1>9 DEF Next, Run

(* Every step leaves threads where they can stand: the lock lets one       *)
(* locker in, and only a process that evaluates has threads at work.       *)
LEMMA StandingStep ==
  ASSUME TypeOK, Standing, [Next]_vars
  PROVE  Standing'
  <1> USE DEF TypeOK, Standing, Goto, Resting, Working
  <1>1. ASSUME NEW p \in Procs, Enter(p)
        PROVE  Standing'
    BY <1>1 DEF Enter
  <1>2. ASSUME NEW p \in Procs, Leave(p) \/ Crash(p)
        PROVE  Standing'
    BY <1>2 DEF Leave, Crash
  <1>3. ASSUME NEW t \in Threads, Request(t) \/ Reuse(t) \/ Miss(t) \/ NoFreeId(t)
        PROVE  Standing'
    BY <1>3 DEF Request, Reuse, Miss, NoFreeId
  <1>4. ASSUME NEW t \in Threads, Pick(t)
        PROVE  Standing'
    <2>1. FirstFree(Draw(t), attempt[t]).draw = Draw(t)
      BY <1>4, FirstFreeIsFree DEF Pick, Free
    <2> QED BY <1>4, <2>1 DEF Pick
  <1>5. ASSUME NEW t \in Threads, StartRun(t) \/ RunEnds(t) \/ Answer(t) \/ Fails(t)
        PROVE  Standing'
    BY <1>5 DEF StartRun, RunEnds, Answer, Fails
  <1>6. ASSUME NEW t \in Threads, LostRace(t) \/ InfraFails(t)
        PROVE  Standing'
    BY <1>6 DEF LostRace, InfraFails, Retry
  <1>7. CASE UNCHANGED vars
    BY <1>7 DEF vars
  <1> QED BY <1>1, <1>2, <1>3, <1>4, <1>5, <1>6, <1>7 DEF Next, Run

(* Every step leaves an id to the thread that started it.                  *)
LEMMA WrittenStep ==
  ASSUME TypeOK, Standing, Written, [Next]_vars
  PROVE  Written'
  <1> USE DEF TypeOK, Written, Goto, Resting
  <1>1. ASSUME NEW p \in Procs, Enter(p) \/ Leave(p) \/ Crash(p)
        PROVE  Written'
    BY <1>1 DEF Enter, Leave, Crash
  <1>2. ASSUME NEW t \in Threads,
               Request(t) \/ Reuse(t) \/ Miss(t) \/ NoFreeId(t) \/ Answer(t) \/ Fails(t)
        PROVE  Written'
    BY <1>2 DEF Request, Reuse, Miss, NoFreeId, Answer, Fails
  <1>3. ASSUME NEW t \in Threads, Pick(t)
        PROVE  Written'
    BY <1>3 DEF Pick
  <1>4. ASSUME NEW t \in Threads, StartRun(t)
        PROVE  Written'
    BY <1>4 DEF StartRun
  <1>5. ASSUME NEW t \in Threads, RunEnds(t)
        PROVE  Written'
    BY <1>5 DEF RunEnds
  <1>6. ASSUME NEW t \in Threads, LostRace(t) \/ InfraFails(t)
        PROVE  Written'
    BY <1>6 DEF LostRace, InfraFails, Retry
  <1>7. CASE UNCHANGED vars
    BY <1>7 DEF vars
  <1> QED BY <1>1, <1>2, <1>3, <1>4, <1>5, <1>6, <1>7 DEF Next, Run

-----------------------------------------------------------------------------
(***************************************************************************)
(* Counting.                                                               *)
(***************************************************************************)
(* The processes that buy a draw can be counted.                           *)
LEMMA LateIsFinite ==
  /\ AtOnce \in Nat
  /\ \A d : IsFiniteSet(Late(d)) /\ Cardinality(Late(d)) \in Nat
  <1>1. AtOnce \in Nat
    BY FS_Subset, FS_CardinalityType DEF AtOnce
  <1>2. ASSUME NEW d
        PROVE  IsFiniteSet(Late(d)) /\ Cardinality(Late(d)) \in Nat
    <2>1. Late(d) \subseteq Procs
      BY DEF Late
    <2> QED BY <2>1, FS_Subset, FS_CardinalityType
  <1> QED BY <1>1, <1>2

(* Of the processes that evaluate, one takes the lock and the others do    *)
(* not.                                                                    *)
LEMMA ActiveAreFew ==
  ASSUME Standing, active \subseteq Procs, NEW S, S \subseteq active
  PROVE  Cardinality(S) <= AtOnce
  <1> DEFINE free == S \ lockers
             held == S \cap lockers
  <1>1. IsFiniteSet(S) /\ IsFiniteSet(free) /\ IsFiniteSet(held) /\ IsFiniteSet(Procs \ lockers)
    BY FS_Subset
  <1>2. Cardinality(free) <= Cardinality(Procs \ lockers)
    BY <1>1, FS_Subset
  <1>3. Cardinality(held) <= IF lockers = {} THEN 0 ELSE 1
    <2>1. CASE held = {}
      BY <2>1, FS_EmptySet
    <2>2. CASE held # {}
      <3>1. PICK p \in held : TRUE
        BY <2>2
      <3>2. held = {p} /\ lockers # {}
        BY <3>1 DEF Standing
      <3> QED BY <3>2, FS_Singleton
    <2> QED BY <2>1, <2>2
  <1>4. S = free \cup held /\ free \cap held = {}
    OBVIOUS
  <1>5. Cardinality(S) = Cardinality(free) + Cardinality(held)
    <2>1. Cardinality(free \cup held)
            = Cardinality(free) + Cardinality(held) - Cardinality(free \cap held)
      BY <1>1, FS_Union
    <2>2. Cardinality(free \cap held) = 0
      BY <1>4, FS_EmptySet
    <2>3. Cardinality(free) \in Nat /\ Cardinality(held) \in Nat
      BY <1>1, FS_CardinalityType
    <2> HIDE DEF free, held
    <2> QED BY <1>4, <2>1, <2>2, <2>3
  <1>6. /\ Cardinality(free) \in Nat /\ Cardinality(held) \in Nat
        /\ Cardinality(Procs \ lockers) \in Nat
    BY <1>1, FS_CardinalityType
  <1> HIDE DEF free, held
  <1> QED BY <1>2, <1>3, <1>5, <1>6 DEF AtOnce

(* A step that writes no outcome and lets no thread join the buyers of a   *)
(* draw keeps its account.                                                 *)
LEMMA NobodyJoins ==
  ASSUME TypeOK, NEW d \in Draws, Paid(d),
         UNCHANGED <<lockers, outcome, bought>>,
         \A t \in Threads : pc'[t] \in Working => pc[t] \in Working
  PROVE  Paid(d)'
  <1>1. Late(d)' \subseteq Late(d)
    BY DEF Late, Threads
  <1>2. Cardinality(Late(d)') <= Cardinality(Late(d)) /\ Cardinality(Late(d)') \in Nat
    BY <1>1, LateIsFinite, FS_Subset, FS_CardinalityType
  <1>3. Recorded(d)' = Recorded(d) /\ AtOnce' = AtOnce
    BY DEF Recorded, AtOnce, Family
  <1>4. bought[d] \in Nat /\ bought'[d] = bought[d]
    BY DEF TypeOK
  <1> QED BY <1>2, <1>3, <1>4, LateIsFinite DEF Paid

(* Every step keeps the account of every draw.  A thread joins the buyers  *)
(* only of a draw that has no outcome, when all who buy it are at work;    *)
(* an outcome takes its buyer from them.                                   *)
LEMMA PaidStep ==
  ASSUME TypeOK, Standing, Standing', Written, NEW d \in Draws, Paid(d), [Next]_vars
  PROVE  Paid(d)'
  <1>1. ASSUME NEW p \in Procs, Enter(p) \/ Leave(p) \/ Crash(p)
        PROVE  Paid(d)'
    <2>1. /\ UNCHANGED <<lockers, outcome, bought>>
          /\ \A t \in Threads : pc'[t] \in Working => pc[t] \in Working
      BY <1>1 DEF Enter, Leave, Crash, TypeOK, Working
    <2> QED BY <2>1, NobodyJoins
  <1>2. ASSUME NEW t \in Threads,
               \/ Request(t) \/ Reuse(t) \/ Pick(t) \/ NoFreeId(t) \/ StartRun(t) \/ Answer(t)
               \/ Fails(t) \/ LostRace(t) \/ InfraFails(t)
        PROVE  Paid(d)'
    <2>1. UNCHANGED <<lockers, outcome, bought>>
      BY <1>2 DEF Request, Reuse, Pick, NoFreeId, StartRun, Answer, Fails, LostRace, InfraFails
    <2>2. \A u \in Threads : pc'[u] \in Working => pc[u] \in Working
      BY <1>2 DEF Request, Reuse, Pick, NoFreeId, StartRun, Answer, Fails, LostRace, InfraFails,
                 Retry, TypeOK, Working, Goto
    <2> QED BY <2>1, <2>2, NobodyJoins
  <1>3. ASSUME NEW t \in Threads, Miss(t)
        PROVE  Paid(d)'
    <2>1. CASE Draw(t) # d
      <3>1. Late(d)' = Late(d)
        BY <1>3, <2>1 DEF Miss, Late, Goto, Threads, Draw, TypeOK
      <3> QED BY <1>3, <3>1 DEF Miss, Paid, Recorded, AtOnce, Family
    <2>2. CASE Draw(t) = d
      <3>1. Recorded(d) = {} /\ Recorded(d)' = {} /\ bought'[d] = 0
        BY <1>3, <2>2 DEF Miss, Recorded, Family, Paid
      <3>2. Late(d)' \subseteq active'
        BY DEF Late, Standing, Working, Threads, Proc
      <3>3. Cardinality(Late(d)') <= AtOnce
        BY <1>3, <3>2, ActiveAreFew DEF Miss, TypeOK
      <3>4. IsFiniteSet(Late(d)') /\ Cardinality(Late(d)') \in Nat
        <4>1. Late(d)' \subseteq Procs
          BY DEF Late
        <4> QED BY <4>1, FS_Subset, FS_CardinalityType
      <3>5. AtOnce' = AtOnce
        BY <1>3 DEF Miss, AtOnce
      <3> QED BY <3>1, <3>3, <3>4, <3>5 DEF Paid
    <2> QED BY <2>1, <2>2
  <1>4. ASSUME NEW t \in Threads, RunEnds(t)
        PROVE  Paid(d)'
    <2>1. AtOnce' = AtOnce
      BY <1>4 DEF RunEnds, AtOnce
    <2>2. id[t] \in Family(Draw(t))
      BY DEF TypeOK, Standing, Family
    <2>3. CASE Draw(t) # d
      <3>1. Late(d)' = Late(d) /\ bought'[d] = bought[d]
        BY <1>4, <2>3 DEF RunEnds, Late, Goto, Threads, Draw, TypeOK
      <3>2. Recorded(d)' = Recorded(d)
        BY <1>4, <2>2, <2>3 DEF RunEnds, Recorded, Family, TypeOK
      <3> QED BY <2>1, <3>1, <3>2 DEF Paid
    <2>4. CASE Draw(t) = d
      <3>1. Proc(t) \in Late(d) /\ Late(d)' = Late(d) \ {Proc(t)}
        <4>1. t = <<Proc(t), d>> /\ Proc(t) \in Procs
          BY <2>4 DEF Threads, Proc, Draw
        <4>2. pc[t] = "running" /\ pc' = [pc EXCEPT ![t] = "recorded"]
          BY <1>4 DEF RunEnds, Goto
        <4>3. \A p \in Procs : <<p, d>> \in Threads /\ (<<p, d>> = t <=> p = Proc(t))
          BY <4>1 DEF Threads
        <4>4. \A p \in Procs : pc'[<<p, d>>] = IF p = Proc(t) THEN "recorded" ELSE pc[<<p, d>>]
          BY <4>2, <4>3 DEF TypeOK
        <4>5. \A p \in Procs : p \in Late(d)' <=> p \in Late(d) /\ p # Proc(t)
          BY <4>4 DEF Late, Working
        <4>6. pc[<<Proc(t), d>>] = "running"
          BY <4>1, <4>2
        <4>7. Proc(t) \in Late(d)
          BY <4>1, <4>6 DEF Late, Working
        <4> QED BY <4>5, <4>7 DEF Late
      <3>2. Cardinality(Late(d)') = Cardinality(Late(d)) - 1
        <4> DEFINE S == Late(d)
        <4>1. IsFiniteSet(S)
          BY LateIsFinite
        <4>2. Cardinality(S \ {Proc(t)}) = Cardinality(S) - 1
          <5> HIDE DEF S
          <5>1. Proc(t) \in S
            BY <3>1 DEF S
          <5> QED BY <4>1, <5>1, FS_RemoveElement
        <4> QED BY <3>1, <4>2
      <3>3. bought'[d] = bought[d] + 1 /\ bought[d] \in Nat
        BY <1>4, <2>4 DEF RunEnds, TypeOK
      <3>4. id[t] \in Recorded(d)'
        BY <1>4, <2>2, <2>4 DEF RunEnds, Recorded, Family, TypeOK
      <3> QED BY <2>1, <3>2, <3>3, <3>4, LateIsFinite DEF Paid
    <2> QED BY <2>3, <2>4
  <1>5. CASE UNCHANGED vars
    <2>1. /\ UNCHANGED <<lockers, outcome, bought>>
          /\ \A t \in Threads : pc'[t] \in Working => pc[t] \in Working
      BY <1>5 DEF vars
    <2> QED BY <2>1, NobodyJoins
  <1> QED BY <1>1, <1>2, <1>3, <1>4, <1>5 DEF Next, Run

-----------------------------------------------------------------------------
(***************************************************************************)
(* Answers.                                                                *)
(***************************************************************************)
(* A step that writes no outcome and tells nothing changes no answer.      *)
LEMMA NothingIsTold ==
  ASSUME NEW d \in Draws, Told(d), UNCHANGED <<lockers, outcome, given>>
  PROVE  Told(d)'
  BY DEF Told, Recorded, Family

(* Every step tells what is on the tape; under the lock the first outcome  *)
(* of a draw is its only one, since its buyer was alone.                   *)
LEMMA ToldStep ==
  ASSUME TypeOK, Standing, Written, NEW d \in Draws, Paid(d), Told(d), [Next]_vars
  PROVE  Told(d)'
  <1>1. ASSUME NEW p \in Procs, Enter(p) \/ Leave(p) \/ Crash(p)
        PROVE  Told(d)'
    BY <1>1, NothingIsTold DEF Enter, Leave, Crash
  <1>2. ASSUME NEW t \in Threads,
               \/ Request(t) \/ Miss(t) \/ Pick(t) \/ NoFreeId(t) \/ StartRun(t)
               \/ Fails(t) \/ LostRace(t) \/ InfraFails(t)
        PROVE  Told(d)'
    <2>1. UNCHANGED <<lockers, outcome, given>>
      BY <1>2 DEF Request, Miss, Pick, NoFreeId, StartRun, Fails, LostRace, InfraFails, Retry
    <2> QED BY <2>1, NothingIsTold
  <1>3. ASSUME NEW t \in Threads, NEW i \in Recorded(Draw(t)),
               given' = [given EXCEPT ![Draw(t)] = @ \union {outcome[i]}],
               UNCHANGED <<lockers, outcome>>
        PROVE  Told(d)'
    <2>1. Recorded(d)' = Recorded(d)
      BY <1>3 DEF Recorded, Family
    <2>2. given'[d] \subseteq given[d] \cup (IF Draw(t) = d THEN {outcome[i]} ELSE {})
      BY <1>3 DEF TypeOK
    <2> QED BY <1>3, <2>1, <2>2 DEF Told
  <1>4. ASSUME NEW t \in Threads, Reuse(t)
        PROVE  Told(d)'
    <2>1. FirstRecorded(Draw(t)) \in Recorded(Draw(t))
      BY <1>4, FirstRecordedIsRecorded DEF Reuse
    <2> QED BY <1>3, <1>4, <2>1 DEF Reuse
  <1>5. ASSUME NEW t \in Threads, Answer(t)
        PROVE  Told(d)'
    <2>1. id[t] \in Recorded(Draw(t))
      BY <1>5 DEF Answer, Written, Standing, TypeOK, Recorded, Family
    <2> QED BY <1>3, <1>5, <2>1 DEF Answer
  <1>6. ASSUME NEW t \in Threads, RunEnds(t)
        PROVE  Told(d)'
    <2>1. /\ lockers' = lockers /\ given' = given
          /\ id[t] \in Ids /\ id[t].draw = Draw(t) /\ outcome[id[t]] = "none"
          /\ \A i \in Ids : i # id[t] => outcome'[i] = outcome[i]
      BY <1>6 DEF RunEnds, TypeOK, Standing, Written
    <2>2. \A i \in Recorded(d) : i \in Recorded(d)' /\ outcome'[i] = outcome[i]
      BY <2>1 DEF Recorded, Family
    <2>3. ASSUME lockers = Procs, NEW i \in Recorded(d)', NEW j \in Recorded(d)'
          PROVE  outcome'[i] = outcome'[j]
      <3>1. CASE Draw(t) # d
        <4>1. i \in Recorded(d) /\ j \in Recorded(d)
          BY <2>1, <3>1 DEF Recorded, Family
        <4> QED BY <2>2, <2>3, <4>1 DEF Told
      <3>2. CASE Draw(t) = d
        <4>1. Proc(t) \in Late(d)
          BY <1>6, <3>2 DEF RunEnds, Late, Threads, Draw, Proc, Working
        <4>2. Cardinality(Late(d)) >= 1
          BY <4>1, LateIsFinite, FS_EmptySet
        <4>3. AtOnce <= 1
          <5>1. Procs \ lockers = {}
            BY <2>3
          <5> QED BY <5>1, FS_EmptySet DEF AtOnce
        <4>4. Recorded(d) = {}
          BY <4>2, <4>3, LateIsFinite DEF Paid, TypeOK
        <4>5. i = id[t] /\ j = id[t]
          BY <2>1, <4>4 DEF Recorded, Family
        <4> QED BY <4>5
      <3> QED BY <3>1, <3>2
    <2> QED BY <2>1, <2>2, <2>3 DEF Told
  <1>7. CASE UNCHANGED vars
    BY <1>7, NothingIsTold DEF vars
  <1> QED BY <1>1, <1>2, <1>4, <1>5, <1>6, <1>7 DEF Next, Run

-----------------------------------------------------------------------------
(* The types, the places of threads, the writers of ids, the accounts of   *)
(* draws and their answers hold in every state.                            *)
THEOREM ForkInvariant == Spec => []ForkInv
  <1>1. ForkInv /\ [Next]_vars => ForkInv'
    BY ForkTypesStep, StandingStep, WrittenStep, PaidStep, ToldStep DEF ForkInv
  <1> QED BY ForkStart, <1>1, PTL DEF Spec

(* The executor's variables keep their types.                              *)
THEOREM ForkTypes == Spec => []TypeOK
  <1>1. ForkInv => TypeOK
    BY DEF ForkInv
  <1> QED BY <1>1, ForkInvariant, PTL

(* A draw is run to an outcome once, or once by each side where not all    *)
(* take the lock, however often attempts die, threads race and processes   *)
(* crash; and an id has one writer (_free_run_id, start_run).              *)
THEOREM ForkNothingTwice == Spec => []NothingTwice
  <1>1. ASSUME ForkInv
        PROVE  NothingTwice
    <2>1. ASSUME NEW d \in Draws
          PROVE  bought[d] <= AtOnce
      <3>1. bought[d] \in Nat /\ Paid(d)
        BY <1>1 DEF ForkInv, TypeOK
      <3> QED BY <3>1, LateIsFinite DEF Paid
    <2>2. OneWriter
      BY <1>1 DEF ForkInv, Written, OneWriter
    <2> QED BY <2>1, <2>2 DEF NothingTwice, PaysOnce
  <1> QED BY <1>1, ForkInvariant, PTL

(* What a draw is said to have been is what a fork of it recorded, and     *)
(* under the lock that is one thing however often it is asked (_recorded). *)
THEOREM ForkOneAnswer == Spec => []OneAnswer
  <1>1. ASSUME ForkInv, NEW d \in Draws
        PROVE  /\ \A passed \in given[d] : \E i \in Ids : i.draw = d /\ outcome[i] = passed
               /\ lockers = Procs => Cardinality(given[d]) <= 1
    <2>1. /\ \A passed \in given[d] : \E i \in Recorded(d) : outcome[i] = passed
          /\ lockers = Procs => \A i, j \in Recorded(d) : outcome[i] = outcome[j]
      BY <1>1 DEF ForkInv, Told
    <2>2. \A i \in Recorded(d) : i \in Ids /\ i.draw = d
      BY DEF Recorded, Family
    <2>3. ASSUME lockers = Procs
          PROVE  Cardinality(given[d]) <= 1
      <3>1. CASE given[d] = {}
        BY <3>1, FS_EmptySet
      <3>2. CASE given[d] # {}
        <4>1. PICK passed \in given[d] : TRUE
          BY <3>2
        <4>2. given[d] = {passed}
          <5>1. \A q \in given[d] : q = passed
            BY <2>1, <2>3, <4>1
          <5> QED BY <4>1, <5>1
        <4>3. Cardinality({passed}) = 1
          BY FS_Singleton, Zenon
        <4>4. Cardinality(given[d]) = 1
          BY <4>2, <4>3, Zenon
        <4> QED BY <4>4
      <3> QED BY <3>1, <3>2
    <2> QED BY <2>1, <2>2, <2>3
  <1>2. ForkInv => OneAnswer
    BY <1>1 DEF OneAnswer
  <1> QED BY <1>2, ForkInvariant, PTL
=============================================================================

---------------------------- MODULE PacingProofs ----------------------------
(***************************************************************************)
(* Proofs about the pacing of a collection, for any number of threads and  *)
(* tasks, any bracket of rates and any length of window.                   *)
(***************************************************************************)
EXTENDS Pacing, FiniteSetTheorems, TLAPS

USE PacingAssumption

-----------------------------------------------------------------------------
(* Where a thread stands says what it holds: a bucket while it waits, a    *)
(* task from the gate on, an attempt it may still make.                    *)
Standing ==
  \A t \in Threads :
    /\ pc[t] = "waiting" => on[t] \in Ids /\ current \in Ids
    /\ pc[t] # "waiting" => on[t] = NoBucket
    /\ pc[t] \in {"gate", "ready", "reserved", "waiting", "sent"} => calls[t] > 0
    /\ pc[t] \in {"idle", "gate", "ended", "finished"} => attempt[t] = 0
    /\ pc[t] = "ready" => attempt[t] < Attempts

(* No bucket holds more than it can, and what the current one granted and  *)
(* holds is at most what it began with and was refilled.                   *)
Metered ==
  /\ \A id \in Ids : buckets[id].tokens <= Window * buckets[id].rate
  /\ current = NoBucket => granted = 0
  /\ current # NoBucket =>
       Window * granted + buckets[current].tokens
         <= Window * buckets[current].rate + buckets[current].rate * ticks
  /\ late + Cardinality(LeftBehind) <= Cardinality(Threads)

PacingInv == PacingTypeOK /\ Standing /\ Metered /\ EdgeIsFollowed

-----------------------------------------------------------------------------
(* The pure parts.                                                         *)
LEMMA BoundsAreNumbers ==
  ASSUME NEW a \in Int, NEW b \in Int
  PROVE  /\ Lower(a, b) \in {a, b} /\ Lower(a, b) <= a /\ Lower(a, b) <= b
         /\ Higher(a, b) \in {a, b} /\ Higher(a, b) >= a /\ Higher(a, b) >= b
  BY DEF Lower, Higher

(* A window that is one tick longer grants one rate more.                  *)
LEMMA OneMore ==
  ASSUME NEW a \in Int, NEW b \in Int
  PROVE  a * (b + 1) = a * b + a
  OBVIOUS

(* The first n numbers are n.                                              *)
LEMMA FirstNumbers ==
  ASSUME NEW n \in Nat
  PROVE  IsFiniteSet(1..n) /\ Cardinality(1..n) = n
  <1>1. Cardinality(1..n) = IF 1 > n THEN 0 ELSE n - 1 + 1
    BY FS_Interval
  <1>2. IsFiniteSet(1..n)
    BY FS_Interval
  <1> QED BY <1>1, <1>2

(* The threads can be counted, and the first bucket has a number of its    *)
(* own.                                                                    *)
LEMMA ThreadsAreFinite ==
  /\ IsFiniteSet(Threads) /\ Cardinality(Threads) \in Nat /\ Cardinality(Threads) > 0
  /\ Ids \subseteq Nat /\ 1 \in Ids /\ NoBucket \notin Ids
  <1>1. IsFiniteSet(Threads) /\ Cardinality(Threads) \in Nat
    BY FS_CardinalityType
  <1>2. Cardinality(Threads) # 0
    BY <1>1, FS_EmptySet
  <1> QED BY <1>1, <1>2 DEF Ids, NoBucket

(* There is always a bucket to swap in: fewer are in use than there are.   *)
LEMMA SomeBucketIsUnused ==
  ASSUME PacingTypeOK
  PROVE  Unused \in Ids /\ ~InUse(Unused)
  <1> DEFINE waited == {on[t] : t \in Threads}
             used == waited \cup {current}
  <1>1. IsFiniteSet(waited) /\ Cardinality(waited) <= Cardinality(Threads)
    <2>1. on \in Surjection(Threads, waited)
      BY DEF PacingTypeOK, Surjection
    <2> QED BY <2>1, ThreadsAreFinite, FS_Surjection
  <1>2. IsFiniteSet(used) /\ Cardinality(used) <= Cardinality(Threads) + 1
    <2>1. Cardinality(waited) \in Nat
      BY <1>1, FS_CardinalityType
    <2>2. /\ IsFiniteSet(used)
          /\ Cardinality(used) \in {Cardinality(waited), Cardinality(waited) + 1}
      BY <1>1, FS_AddElement
    <2> QED BY <1>1, <2>1, <2>2, ThreadsAreFinite
  <1>3. IsFiniteSet(Ids) /\ Cardinality(Ids) = Cardinality(Threads) + 2
    <2>1. PICK n \in Nat : n = Cardinality(Threads) + 2
      BY ThreadsAreFinite
    <2>2. IsFiniteSet(1..n) /\ Cardinality(1..n) = n
      BY FirstNumbers
    <2>3. Ids = 1..n
      BY <2>1 DEF Ids
    <2> QED BY <2>1, <2>2, <2>3
  <1>4. ~(Ids \subseteq used)
    <2>1. SUFFICES ASSUME Ids \subseteq used PROVE FALSE
      OBVIOUS
    <2>2. Cardinality(Ids) <= Cardinality(used) /\ Cardinality(used) \in Nat
      BY <1>2, <2>1, FS_Subset, FS_CardinalityType
    <2> QED BY <1>2, <1>3, <2>2, ThreadsAreFinite
  <1>5. \E id \in Ids : ~InUse(id)
    BY <1>4 DEF InUse
  <1> QED BY <1>5 DEF Unused

(* A new bucket starts with its whole burst.                               *)
LEMMA FullIsABucket ==
  ASSUME NEW r \in Floor..Ceiling
  PROVE  /\ Full(r) \in [rate : Floor..Ceiling, tokens : Nat]
         /\ Full(r).rate = r /\ Full(r).tokens = Window * r
  <1>1. Window * r \in Nat
    OBVIOUS
  <1> QED BY <1>1 DEF Full

(* A refill never exceeds the burst and keeps the rate.                    *)
LEMMA RefilledIsABucket ==
  ASSUME NEW b \in [rate : Floor..Ceiling, tokens : Nat]
  PROVE  /\ Refilled(b) \in [rate : Floor..Ceiling, tokens : Nat]
         /\ Refilled(b).rate = b.rate
         /\ Refilled(b).tokens <= Window * b.rate
         /\ Refilled(b).tokens <= b.tokens + b.rate
  <1>1. /\ b.rate \in Nat /\ b.tokens \in Nat
        /\ Window * b.rate \in Nat /\ b.tokens + b.rate \in Nat
    OBVIOUS
  <1>2. PICK tokens \in Nat :
          /\ tokens = Lower(Window * b.rate, b.tokens + b.rate)
          /\ tokens <= Window * b.rate /\ tokens <= b.tokens + b.rate
    BY <1>1 DEF Lower
  <1>3. Refilled(b) = [b EXCEPT !.tokens = tokens]
    BY <1>2 DEF Refilled
  <1> QED BY <1>2, <1>3

(* The gate never closes.                                                  *)
GateType ==
  [allowed : Nat \ {0}, ceiling : Nat \ {0}, failures : 0..GateStorm, successes : 0..Recovery]

(* Halving, recovering and resizing the gate leave at least one task       *)
(* admitted.                                                               *)
LEMMA GateStaysOpen ==
  ASSUME PacingTypeOK
  PROVE  /\ AfterFailure \in GateType /\ AfterSuccess \in GateType
         /\ Resized(RecommendedThreads) \in GateType
  <1>1. /\ gate \in GateType /\ gate.allowed \in Nat \ {0} /\ gate.failures \in 0..GateStorm
        /\ gate.successes \in 0..Recovery
    BY DEF PacingTypeOK, GateType
  <1>2. AfterFailure \in GateType
    <2>1. Higher(GateMinimum, gate.allowed \div 2) \in Nat \ {0}
      BY <1>1 DEF Higher
    <2>2. Lower(GateStorm, gate.failures + 1) \in 0..GateStorm
      BY <1>1 DEF Lower
    <2>3. 0 \in 0..GateStorm /\ 0 \in 0..Recovery
      OBVIOUS
    <2>4. CASE gate.failures + 1 >= GateStorm /\ gate.allowed > GateMinimum
      BY <1>1, <2>1, <2>3, <2>4 DEF AfterFailure, GateType
    <2>5. CASE ~(gate.failures + 1 >= GateStorm /\ gate.allowed > GateMinimum)
      <3>1. AfterFailure = [gate EXCEPT !.failures = Lower(GateStorm, gate.failures + 1),
                                        !.successes = 0]
        BY <1>1, <2>5 DEF AfterFailure, GateType
      <3> QED BY <1>1, <2>2, <2>3, <3>1 DEF GateType
    <2> QED BY <2>4, <2>5
  <1>3. AfterSuccess \in GateType
    <2>1. Lower(Recovery, gate.successes + 1) \in 0..Recovery
      BY <1>1 DEF Lower
    <2>2. 0 \in 0..GateStorm /\ 0 \in 0..Recovery /\ gate.allowed + 1 \in Nat \ {0}
      BY <1>1
    <2>3. CASE gate.successes + 1 >= Recovery /\ gate.allowed < gate.ceiling
      <3>1. AfterSuccess = [gate EXCEPT !.allowed = gate.allowed + 1, !.failures = 0,
                                        !.successes = 0]
        BY <1>1, <2>3 DEF AfterSuccess, GateType
      <3> QED BY <1>1, <2>2, <3>1 DEF GateType
    <2>4. CASE ~(gate.successes + 1 >= Recovery /\ gate.allowed < gate.ceiling)
      <3>1. AfterSuccess = [gate EXCEPT !.failures = 0,
                                        !.successes = Lower(Recovery, gate.successes + 1)]
        BY <1>1, <2>4 DEF AfterSuccess, GateType
      <3> QED BY <1>1, <2>1, <2>2, <3>1 DEF GateType
    <2> QED BY <2>3, <2>4
  <1>4. Resized(RecommendedThreads) \in GateType
    <2>1. rate \in Nat /\ typical \in Nat
      BY DEF PacingTypeOK
    <2>2. rate * typical \in Int /\ (rate * typical) \div 2 \in Int
      BY <2>1
    <2>3. Wanted \in Int
      BY <2>2 DEF Wanted
    <2>4. RecommendedThreads \in Int
      BY <2>3 DEF RecommendedThreads, Lower, Higher
    <2>5. Higher(RecommendedThreads, GateMinimum) \in Nat \ {0}
      BY <2>4 DEF Higher
    <2> QED BY <1>1, <2>5 DEF Resized, GateType
  <1> QED BY <1>2, <1>3, <1>4
-----------------------------------------------------------------------------
(* The process starts with one full bucket at the first rate and an open   *)
(* gate.                                                                   *)
LEMMA PacingStart == Init => PacingInv
  <1> SUFFICES ASSUME Init PROVE PacingInv
    OBVIOUS
  <1>1. buckets \in [Ids -> [rate : Floor..Ceiling, tokens : Nat]]
    BY FullIsABucket DEF Init
  <1>2. gate \in GateType
    <2>1. Higher(Cardinality(Threads), GateMinimum) \in Nat \ {0}
      BY ThreadsAreFinite DEF Higher
    <2> QED BY <2>1 DEF Init, GateType
  <1>3. PacingTypeOK
    <2>1. /\ queue \in 0..Tasks /\ clean \in 0..CleanWindows - 1 /\ rate \in Floor..Ceiling
          /\ refused \in 0..Storm429s /\ ticks \in 0..Window + Overrun
          /\ rows \in [sent : 0..1, ok : Nat, bad : Nat]
      BY DEF Init, NoRows
    <2>2. /\ calls \in [Threads -> 0..Calls] /\ attempt \in [Threads -> 0..Attempts]
          /\ on \in [Threads -> Ids \cup {NoBucket}] /\ fresh \in [Threads -> BOOLEAN]
      BY DEF Init
    <2> QED BY <1>1, <1>2, <2>1, <2>2 DEF Init, PacingTypeOK, GateType
  <1>4. Standing
    BY DEF Init, Standing, NoBucket
  <1>5. Metered
    <2>1. \A id \in Ids : buckets[id].tokens <= Window * buckets[id].rate
      <3>1. Window * Floor \in Int
        OBVIOUS
      <3> QED BY <3>1, FullIsABucket DEF Init
    <2>2. LeftBehind = {}
      BY DEF Init, LeftBehind
    <2>3. Cardinality(LeftBehind) = 0
      BY <2>2, FS_EmptySet
    <2> QED BY <2>1, <2>3, ThreadsAreFinite DEF Init, Metered
  <1>6. EdgeIsFollowed
    BY DEF Init, EdgeIsFollowed
  <1> QED BY <1>3, <1>4, <1>5, <1>6 DEF PacingInv

(* A bucket is swapped only for one nobody uses, full and at the new rate. *)
LEMMA RetunedIsTuned ==
  ASSUME PacingTypeOK, NEW r \in Floor..Ceiling, Retuned(r)
  PROVE  /\ buckets' \in [Ids -> [rate : Floor..Ceiling, tokens : Nat]]
         /\ current' \in Ids \cup {NoBucket}
         /\ current' = NoBucket <=> current = NoBucket
         /\ current' # NoBucket => buckets'[current'].rate = r
         /\ \A id \in Ids : buckets'[id] = buckets[id] \/ buckets'[id] = Full(r)
  <1>1. CASE current = NoBucket \/ buckets[current].rate = r
    BY <1>1 DEF Retuned, limiter, PacingTypeOK
  <1>2. CASE ~(current = NoBucket \/ buckets[current].rate = r)
    <2>1. buckets' = [buckets EXCEPT ![Unused] = Full(r)] /\ current' = Unused
      BY <1>2 DEF Retuned
    <2> QED BY <1>2, <2>1, SomeBucketIsUnused, FullIsABucket, ThreadsAreFinite DEF PacingTypeOK
  <1> QED BY <1>1, <1>2

(***************************************************************************)
(* Types.                                                                  *)
(***************************************************************************)
LEMMA PacingTypesThread ==
  ASSUME PacingInv, NEW t \in Threads, ThreadStep(t)
  PROVE  PacingTypeOK'
  <1> USE DEF PacingInv, PacingTypeOK, thread, limiter, control, ledger, meter
  <1>1. CASE TakeTask(t)
    BY <1>1 DEF TakeTask
  <1>2. CASE EnterGate(t)
    BY <1>2 DEF EnterGate
  <1>3. CASE Reserve(t)
    BY <1>3 DEF Reserve, Standing
  <1>4. CASE FetchBucket(t)
    BY <1>4, ThreadsAreFinite, FullIsABucket DEF FetchBucket
  <1>5. CASE Granted(t)
    BY <1>5 DEF Granted, Covers, Standing
  <1>6. CASE AnswerOk(t)
    BY <1>6 DEF AnswerOk, Counted, Standing
  <1>7. CASE RefusedAgain(t)
    BY <1>7 DEF RefusedAgain, Lower
  <1>8. CASE CallFails(t)
    BY <1>8, GateStaysOpen DEF CallFails, Counted, Lower, GateType
  <1>9. CASE FinishTask(t)
    BY <1>9, GateStaysOpen DEF FinishTask, GateType
  <1>10. CASE LeaveGate(t)
    BY <1>10, GateStaysOpen DEF LeaveGate, GateType
  <1> QED BY <1>1, <1>2, <1>3, <1>4, <1>5, <1>6, <1>7, <1>8, <1>9, <1>10
      DEF ThreadStep

(* The controller, the clock and tasks that are not watched keep the       *)
(* types.                                                                  *)
LEMMA PacingTypesControl ==
  ASSUME PacingInv, Tick \/ Unwatched \/ ControlStep \/ UNCHANGED vars
  PROVE  PacingTypeOK'
  <1> USE DEF PacingInv, PacingTypeOK, thread, limiter, control, ledger, meter
  <1>1. CASE Tick
    <2>1. buckets' \in [Ids -> [rate : Floor..Ceiling, tokens : Nat]]
      BY <1>1, RefilledIsABucket, FullIsABucket DEF Tick
    <2>2. ticks' \in 0..Window + Overrun
      BY <1>1 DEF Tick
    <2> QED BY <1>1, <2>1, <2>2 DEF Tick
  <1>2. CASE Unwatched
    BY <1>2 DEF Unwatched, NoRows
  <1>3. CASE React
    <2>1. rate' \in Floor..Ceiling /\ clean' \in 0..CleanWindows - 1
      <3>1. CASE RateLimited >= Storm429s
        <4>1. (4 * rate) \div 5 \in Int /\ (4 * rate) \div 5 <= rate
          OBVIOUS
        <4>2. clean' = 0 /\ rate' = Higher(Floor, (4 * rate) \div 5)
          BY <1>3, <3>1 DEF React, RateLimited
        <4> QED BY <4>1, <4>2 DEF Higher
      <3>2. CASE ~(RateLimited >= Storm429s) /\ rows.sent > 0
        BY <1>3, <3>2 DEF React, RateLimited, Lower
      <3>3. CASE ~(RateLimited >= Storm429s) /\ ~(rows.sent > 0)
        BY <1>3, <3>3 DEF React, RateLimited
      <3> QED BY <3>1, <3>2, <3>3
    <2>2. congested' \in BOOLEAN
      BY <1>3 DEF React, Unhealthy
    <2>3. typical' \in Latencies \cup {0}
      BY <1>3 DEF React
    <2> QED BY <1>3, <2>1, <2>2, <2>3 DEF React
  <1>4. CASE Retune
    <2>1. /\ buckets' \in [Ids -> [rate : Floor..Ceiling, tokens : Nat]]
          /\ current' \in Ids \cup {NoBucket}
      BY <1>4, RetunedIsTuned DEF Retune, NextBucket
    <2>2. rows' \in [sent : 0..1, ok : Nat, bad : Nat] /\ refused' \in 0..Storm429s
      BY <1>4 DEF Retune, NoRows
    <2>3. fresh' \in [Threads -> BOOLEAN] /\ ticks' \in 0..Window + Overrun
      <3>1. [t \in Threads |-> FALSE] \in [Threads -> BOOLEAN]
        OBVIOUS
      <3>2. fresh' \in [Threads -> BOOLEAN]
        BY <1>4, <3>1, Zenon DEF Retune
      <3>3. ticks' = 0
        BY <1>4 DEF Retune
      <3> QED BY <3>2, <3>3
    <2> QED BY <1>4, <2>1, <2>2, <2>3 DEF Retune
  <1>5. CASE UNCHANGED vars
    BY <1>5 DEF vars
  <1> QED BY <1>1, <1>2, <1>3, <1>4, <1>5 DEF ControlStep

(***************************************************************************)
(* Standing.                                                               *)
(***************************************************************************)
LEMMA StandingStep ==
  ASSUME PacingInv, [Next]_vars
  PROVE  Standing'
  <1> USE DEF PacingInv, PacingTypeOK, Standing, thread, limiter, control, ledger, meter
  <1>1. ASSUME NEW t \in Threads, TakeTask(t)
        PROVE  Standing'
    BY <1>1 DEF TakeTask
  <1>2. ASSUME NEW t \in Threads, EnterGate(t)
        PROVE  Standing'
    BY <1>2 DEF EnterGate
  <1>3. ASSUME NEW t \in Threads, Reserve(t)
        PROVE  Standing'
    BY <1>3 DEF Reserve
  <1>4. ASSUME NEW t \in Threads, FetchBucket(t)
        PROVE  Standing'
    <2>1. current' \in Ids /\ (current # NoBucket => current' = current)
      BY <1>4, ThreadsAreFinite DEF FetchBucket
    <2> QED BY <1>4, <2>1 DEF FetchBucket
  <1>5. ASSUME NEW t \in Threads, Granted(t)
        PROVE  Standing'
    BY <1>5 DEF Granted
  <1>6. ASSUME NEW t \in Threads, AnswerOk(t)
        PROVE  Standing'
    BY <1>6 DEF AnswerOk
  <1>7. ASSUME NEW t \in Threads, RefusedAgain(t)
        PROVE  Standing'
    BY <1>7 DEF RefusedAgain
  <1>8. ASSUME NEW t \in Threads, CallFails(t)
        PROVE  Standing'
    BY <1>8 DEF CallFails
  <1>9. ASSUME NEW t \in Threads, FinishTask(t) \/ LeaveGate(t)
        PROVE  Standing'
    BY <1>9 DEF FinishTask, LeaveGate
  <1>10. CASE Tick \/ Unwatched \/ React \/ UNCHANGED vars
    BY <1>10 DEF Tick, Unwatched, React, vars
  <1>11. CASE Retune
    <2>1. rate \in Floor..Ceiling
      OBVIOUS
    <2>2. current \in Ids => current' \in Ids
      BY <1>11, <2>1, RetunedIsTuned, ThreadsAreFinite DEF Retune, NextBucket
    <2> QED BY <1>11, <2>2 DEF Retune
  <1> QED
    BY <1>1, <1>2, <1>3, <1>4, <1>5, <1>6, <1>7, <1>8, <1>9, <1>10, <1>11
    DEF Next, ThreadStep, ControlStep

(***************************************************************************)
(* Metered.                                                                *)
(***************************************************************************)
(* Whoever is left behind at a replaced bucket costs it one token at most. *)
LEMMA LeftBehindIsFinite ==
  ASSUME NEW S \in SUBSET Threads
  PROVE  /\ IsFiniteSet(S) /\ Cardinality(S) \in Nat
         /\ Cardinality(S) <= Cardinality(Threads)
         /\ \A t \in S : Cardinality(S \ {t}) = Cardinality(S) - 1
  BY ThreadsAreFinite, FS_Subset, FS_CardinalityType, FS_RemoveElement

(* A step that moves no thread to or from a bucket and grants nothing.     *)
LEMMA MeteredStays ==
  ASSUME PacingInv, UNCHANGED <<buckets, current, granted, late, ticks>>, LeftBehind' = LeftBehind
  PROVE  Metered'
  BY DEF PacingInv, Metered

(* Every step keeps Metered: a grant takes the token it gives out, a       *)
(* refill adds the rate at most, and a replaced bucket is left by those    *)
(* who wait on it one by one.                                              *)
LEMMA MeteredStep ==
  ASSUME PacingInv, [Next]_vars
  PROVE  Metered'
  <1> USE DEF PacingInv, PacingTypeOK, thread, limiter, control, ledger, meter
  <1>1. ASSUME NEW t \in Threads,
               \/ TakeTask(t) \/ EnterGate(t) \/ Reserve(t) \/ AnswerOk(t) \/ RefusedAgain(t)
               \/ CallFails(t) \/ FinishTask(t) \/ LeaveGate(t)
        PROVE  Metered'
    <2>1. /\ UNCHANGED <<buckets, current, granted, late, ticks, on>>
          /\ pc[t] # "waiting"
          /\ \E v : v # "waiting" /\ pc' = [pc EXCEPT ![t] = v]
      BY <1>1 DEF TakeTask, EnterGate, Reserve, AnswerOk, RefusedAgain, CallFails, FinishTask,
                  LeaveGate
    <2>2. LeftBehind' = LeftBehind
      BY <2>1 DEF LeftBehind
    <2> QED BY <2>1, <2>2, MeteredStays
  <1>2. ASSUME NEW t \in Threads, FetchBucket(t)
        PROVE  Metered'
    <2>1. /\ pc[t] = "reserved" /\ pc' = [pc EXCEPT ![t] = "waiting"]
          /\ on' = [on EXCEPT ![t] = current'] /\ UNCHANGED <<granted, late, ticks>>
      BY <1>2 DEF FetchBucket
    <2>2. CASE current = NoBucket
      <3>1. /\ current' = 1 /\ buckets' = [buckets EXCEPT ![1] = Full(rate)] /\ granted = 0
        BY <1>2, <2>2 DEF FetchBucket, Metered
      <3>2. LeftBehind' = {} /\ LeftBehind = {}
        BY <2>1, <2>2, ThreadsAreFinite DEF LeftBehind, Standing
      <3>3. /\ Full(rate).tokens = Window * rate /\ Full(rate).rate = rate
            /\ buckets'[1] = Full(rate) /\ rate * ticks \in Nat /\ Window * rate \in Nat
        BY <3>1, ThreadsAreFinite, FullIsABucket
      <3>4. \A id \in Ids : buckets'[id].tokens <= Window * buckets'[id].rate
        BY <3>1, <3>3 DEF Metered
      <3>5. Window * granted = 0
        BY <3>1
      <3> QED BY <2>1, <3>1, <3>2, <3>3, <3>4, <3>5 DEF Metered, NoBucket
    <2>3. CASE current # NoBucket
      <3>1. UNCHANGED <<buckets, current>>
        BY <1>2, <2>3 DEF FetchBucket
      <3>2. LeftBehind' = LeftBehind
        BY <2>1, <3>1 DEF LeftBehind
      <3> QED BY <2>1, <3>1, <3>2, MeteredStays
    <2> QED BY <2>2, <2>3
  <1>3. ASSUME NEW t \in Threads, Granted(t)
        PROVE  Metered'
    <2> DEFINE b == on[t]
    <2>1. /\ pc[t] = "waiting" /\ b \in Ids /\ current \in Ids
          /\ buckets[b].tokens >= Window
          /\ buckets' = [buckets EXCEPT ![b].tokens = @ - Window]
          /\ UNCHANGED <<current, ticks>>
          /\ pc' = [pc EXCEPT ![t] = "sent"] /\ on' = [on EXCEPT ![t] = NoBucket]
      BY <1>3 DEF Granted, Covers, Standing
    <2>2. /\ buckets'[b].tokens = buckets[b].tokens - Window
          /\ \A id \in Ids : /\ buckets'[id].rate = buckets[id].rate
                             /\ id # b => buckets'[id] = buckets[id]
      BY <2>1
    <2>3. \A id \in Ids : buckets'[id].tokens <= Window * buckets'[id].rate
      <3>1. ASSUME NEW id \in Ids
            PROVE  buckets'[id].tokens <= Window * buckets'[id].rate
        <4>1. buckets'[id].tokens <= buckets[id].tokens
          BY <2>1, <2>2
        <4>2. buckets[id].tokens <= Window * buckets[id].rate
          BY DEF Metered
        <4> QED BY <2>2, <4>1, <4>2
      <3> QED BY <3>1
    <2>4. CASE b = current
      <3>1. granted' = granted + 1 /\ late' = late
        BY <1>3, <2>4 DEF Granted
      <3>2. LeftBehind' = LeftBehind
        BY <2>1, <2>4 DEF LeftBehind
      <3>3. Window * granted' = Window * granted + Window
        BY <3>1
      <3>4. /\ buckets'[current].tokens = buckets[current].tokens - Window
            /\ buckets'[current].rate = buckets[current].rate
            /\ current \in Ids /\ current # NoBucket
        BY <2>1, <2>2, <2>4, ThreadsAreFinite
      <3>5. Window * granted + buckets[current].tokens
              <= Window * buckets[current].rate + buckets[current].rate * ticks
        BY <3>4 DEF Metered
      <3>6. /\ Window * granted \in Int /\ buckets[current].tokens \in Int
            /\ Window * buckets[current].rate \in Int /\ buckets[current].rate * ticks \in Int
        BY <3>4
      <3>7. Window * granted' + buckets'[current].tokens
              <= Window * buckets'[current].rate + buckets'[current].rate * ticks
        BY <3>3, <3>4, <3>5, <3>6
      <3> QED BY <2>1, <2>3, <3>1, <3>2, <3>4, <3>7 DEF Metered
    <2>5. CASE b # current
      <3>1. granted' = granted /\ late' = late + 1
        BY <1>3, <2>5 DEF Granted
      <3>2. t \in LeftBehind /\ LeftBehind' = LeftBehind \ {t}
        BY <2>1, <2>5 DEF LeftBehind
      <3>3. Cardinality(LeftBehind') = Cardinality(LeftBehind) - 1
        BY <3>2, LeftBehindIsFinite DEF LeftBehind
      <3>4. LeftBehind \subseteq Threads /\ Cardinality(LeftBehind) \in Nat
        BY LeftBehindIsFinite DEF LeftBehind
      <3>5. late' + Cardinality(LeftBehind') <= Cardinality(Threads)
        BY <3>1, <3>3, <3>4, ThreadsAreFinite DEF Metered
      <3>6. buckets'[current] = buckets[current]
        BY <2>1, <2>2, <2>5
      <3> QED BY <2>1, <2>3, <3>1, <3>5, <3>6, ThreadsAreFinite DEF Metered
    <2> QED BY <2>4, <2>5
  <1>4. CASE Tick
    <2>1. /\ ticks' = ticks + 1 /\ UNCHANGED <<current, granted, late, on, pc>>
          /\ \A id \in Ids : buckets'[id] = IF InUse(id) THEN Refilled(buckets[id]) ELSE Full(Floor)
      BY <1>4 DEF Tick
    <2>2. \A id \in Ids : buckets'[id].tokens <= Window * buckets'[id].rate
      <3>1. ASSUME NEW id \in Ids
            PROVE  buckets'[id].tokens <= Window * buckets'[id].rate
        <4>1. CASE InUse(id)
          <5>1. buckets'[id] = Refilled(buckets[id])
            BY <2>1, <4>1
          <5> QED BY <5>1, RefilledIsABucket
        <4>2. CASE ~InUse(id)
          <5>1. buckets'[id] = Full(Floor) /\ Window * Floor \in Int
            BY <2>1, <4>2
          <5> QED BY <5>1, FullIsABucket
        <4> QED BY <4>1, <4>2
      <3> QED BY <3>1
    <2>3. LeftBehind' = LeftBehind
      BY <2>1 DEF LeftBehind
    <2>4. CASE current = NoBucket
      BY <2>1, <2>2, <2>3, <2>4 DEF Metered
    <2>5. CASE current # NoBucket
      <3> DEFINE r == buckets[current].rate
      <3>1. /\ current \in Ids /\ r \in Int
            /\ buckets'[current].rate = r /\ buckets'[current].tokens <= buckets[current].tokens + r
            /\ buckets[current].tokens \in Int /\ buckets'[current].tokens \in Int
        BY <2>1, <2>5, RefilledIsABucket DEF InUse
      <3>2. r * ticks' = r * ticks + r
        <4>1. ticks \in Int
          OBVIOUS
        <4>2. r * (ticks + 1) = r * ticks + r
          BY <3>1, <4>1, OneMore
        <4> QED BY <2>1, <4>2
      <3>3. Window * granted + buckets[current].tokens <= Window * r + r * ticks
        BY <2>5 DEF Metered
      <3>4. Window * granted \in Int /\ Window * r \in Int /\ r * ticks \in Int
        BY <3>1
      <3>5. Window * granted + buckets'[current].tokens <= Window * r + r * ticks'
        BY <3>1, <3>2, <3>3, <3>4
      <3> QED BY <2>1, <2>2, <2>3, <2>5, <3>1, <3>5 DEF Metered
    <2> QED BY <2>4, <2>5
  <1>5. CASE Unwatched \/ Retune
    <2>1. /\ ticks' = 0 /\ granted' = 0 /\ late' = 0
          /\ current' \in Ids \cup {NoBucket}
          /\ buckets' \in [Ids -> [rate : Floor..Ceiling, tokens : Nat]]
          /\ \A id \in Ids : \/ buckets'[id] = buckets[id]
                             \/ \E r \in Floor..Ceiling : buckets'[id] = Full(r)
      <3>1. rate \in Floor..Ceiling
        OBVIOUS
      <3>2. CASE Unwatched
        BY <3>2 DEF Unwatched
      <3>3. CASE Retune
        BY <3>1, <3>3, RetunedIsTuned DEF Retune, NextBucket
      <3> QED BY <1>5, <3>2, <3>3
    <2>2. \A id \in Ids : buckets'[id].tokens <= Window * buckets'[id].rate
      BY <2>1, FullIsABucket DEF Metered
    <2>3. /\ Window * granted' = 0
          /\ current' # NoBucket => /\ buckets'[current'].rate * ticks' = 0
                                   /\ buckets'[current'].tokens \in Int
                                   /\ Window * buckets'[current'].rate \in Int
      BY <2>1
    <2>4. Cardinality(LeftBehind') \in Nat /\ Cardinality(LeftBehind') <= Cardinality(Threads)
      <3>1. LeftBehind' \subseteq Threads
        BY DEF LeftBehind
      <3> QED BY <3>1, LeftBehindIsFinite
    <2> QED BY <2>1, <2>2, <2>3, <2>4 DEF Metered
  <1>6. CASE React \/ UNCHANGED vars
    <2>1. UNCHANGED <<buckets, current, granted, late, ticks, on, pc>>
      BY <1>6 DEF React, vars
    <2>2. LeftBehind' = LeftBehind
      BY <2>1 DEF LeftBehind
    <2> QED BY <2>1, <2>2, MeteredStays
  <1> QED BY <1>1, <1>2, <1>3, <1>4, <1>5, <1>6 DEF Next, ThreadStep, ControlStep

(***************************************************************************)
(* The edge.                                                               *)
(***************************************************************************)
LEMMA EdgeStep ==
  ASSUME PacingInv, [Next]_vars
  PROVE  EdgeIsFollowed'
  <1> USE DEF PacingInv, PacingTypeOK, EdgeIsFollowed, thread, limiter, control, ledger, meter
  <1>1. ASSUME NEW t \in Threads,
               \/ TakeTask(t) \/ EnterGate(t) \/ Reserve(t) \/ AnswerOk(t) \/ RefusedAgain(t)
               \/ CallFails(t) \/ FinishTask(t) \/ LeaveGate(t)
        PROVE  EdgeIsFollowed'
    BY <1>1 DEF TakeTask, EnterGate, Reserve, AnswerOk, RefusedAgain, CallFails, FinishTask,
                LeaveGate
  <1>2. ASSUME NEW t \in Threads, FetchBucket(t)
        PROVE  EdgeIsFollowed'
    BY <1>2, ThreadsAreFinite, FullIsABucket DEF FetchBucket
  <1>3. ASSUME NEW t \in Threads, Granted(t)
        PROVE  EdgeIsFollowed'
    BY <1>3 DEF Granted, Standing
  <1>4. CASE Tick
    BY <1>4, RefilledIsABucket DEF Tick, InUse
  <1>5. CASE Unwatched \/ React \/ UNCHANGED vars
    BY <1>5 DEF Unwatched, React, vars
  <1>6. CASE Retune
    BY <1>6, RetunedIsTuned DEF Retune, NextBucket
  <1> QED BY <1>1, <1>2, <1>3, <1>4, <1>5, <1>6 DEF Next, ThreadStep, ControlStep

-----------------------------------------------------------------------------
(* Every step of a thread, of the controller and of the clock keeps the    *)
(* invariant.                                                              *)
LEMMA PacingStep ==
  ASSUME PacingInv, [Next]_vars
  PROVE  PacingInv'
  <1>1. PacingTypeOK'
    BY PacingTypesThread, PacingTypesControl DEF Next
  <1> QED BY <1>1, StandingStep, MeteredStep, EdgeStep DEF PacingInv

(* The types, the account of the buckets and the edge hold in every        *)
(* state, for any number of threads and any bracket of rates.              *)
THEOREM PacingInvariant == Spec => []PacingInv
  BY PacingStart, PacingStep, PTL DEF Spec

(* The pacing keeps its types: the rate stays in its bracket, the gate     *)
(* stays open, whatever the windows say.                                   *)
THEOREM PacingTypes == Spec => []PacingTypeOK
  <1>1. PacingInv => PacingTypeOK
    BY DEF PacingInv
  <1> QED BY <1>1, PacingInvariant, PTL

(* core/llm.py, rate_edge.py: between two steps of the controller the      *)
(* bucket in use grants no more than it held and was refilled, and the     *)
(* replaced ones no more than a token for each thread left at one.         *)
THEOREM PacingKeepsTheRate == Spec => []RateIsKept
  <1>1. PacingInv => RateIsKept
    <2> SUFFICES ASSUME PacingInv
                 PROVE  current # NoBucket =>
                          Window * granted
                            <= Window * buckets[current].rate + buckets[current].rate * ticks
      BY DEF PacingInv, Metered, RateIsKept
    <2> SUFFICES ASSUME current # NoBucket
                 PROVE  Window * granted
                          <= Window * buckets[current].rate + buckets[current].rate * ticks
      OBVIOUS
    <2>1. /\ Window * granted \in Int /\ buckets[current].tokens \in Nat
          /\ Window * buckets[current].rate \in Int /\ buckets[current].rate * ticks \in Int
      BY DEF PacingInv, PacingTypeOK
    <2>2. Window * granted + buckets[current].tokens
            <= Window * buckets[current].rate + buckets[current].rate * ticks
      BY DEF PacingInv, Metered
    <2> QED BY <2>1, <2>2
  <1> QED BY <1>1, PacingInvariant, PTL

(* rate_edge.py: the bucket that calls go through has the edge's rate      *)
(* between two steps of the controller.                                    *)
THEOREM PacingFollowsTheEdge == Spec => []EdgeIsFollowed
  <1>1. PacingInv => EdgeIsFollowed
    BY DEF PacingInv
  <1> QED BY <1>1, PacingInvariant, PTL
=============================================================================

------------------------------- MODULE Pacing -------------------------------
(***************************************************************************)
(* How fast a collection calls a model: the gate that says how many tasks  *)
(* may be in flight (bench/inject.py), the token bucket their calls pass   *)
(* (core/llm.py), and the controller that reads the ledger once a window   *)
(* and retunes both (core/rate_edge.py).                                   *)
(*                                                                         *)
(* A window is Window ticks long; a bucket of rate r holds Window * r      *)
(* units, a tick brings r of them and a call costs Window.                 *)
(*                                                                         *)
(* Abstracted: one model; latencies (a small set of typical ones); the     *)
(* stop rule, passes and the journal, which are Collection's; budgets,     *)
(* interrupts and rejected keys, which are CallLedger's.                   *)
(***************************************************************************)
EXTENDS Integers, FiniteSets

CONSTANTS
  Threads,        \* the pool of task threads
  Tasks,          \* how many tasks there are
  Calls,          \* calls of a task
  Attempts,       \* attempts of a call before the retries are exhausted
  Floor, Ceiling, \* the bracket of the rate
  Increase,       \* increase_rpm
  CleanWindows,   \* clean_windows_before_increase
  Storm429s,      \* storm_429s
  MinSample,      \* min_health_sample
  MinThreads, MaxThreads,
  Latencies,      \* typical latencies, in threads per unit of rate
  GateStorm, Recovery, GateMinimum,
  Window,         \* ticks of a window
  Overrun         \* ticks the controller may come late

ASSUME PacingAssumption ==
  /\ IsFiniteSet(Threads) /\ Threads # {}
  /\ {Tasks, Increase, Storm429s, MinSample, MinThreads, Overrun} \subseteq Nat
  /\ {Calls, Attempts, Floor, CleanWindows, GateStorm, Recovery, GateMinimum, Window}
       \subseteq Nat \ {0}
  /\ Ceiling \in Nat /\ Floor <= Ceiling
  /\ MaxThreads \in Nat /\ MinThreads <= MaxThreads
  /\ Latencies \subseteq Nat

VARIABLES
  adaptive,  \* the collection has a controller
  queue,     \* tasks nobody took yet
  pc,        \* what each task thread does
  calls,     \* calls its task still has to make
  attempt,   \* attempts its call made
  on,        \* the bucket its call waits at
  fresh,     \* its row is of the window the controller has not read yet
  buckets,   \* the token buckets that are still in use, by generation
  current,   \* the bucket the limiter hands out, None before the first call
  rate, clean, congested, typical,  \* the controller's own state
  ctl,       \* where the controller stands in a step
  rows,      \* the window in the ledger: sent, ok, bad (error or exhausted)
  refused,   \* rows of the window the provider refused for rate
  gate,      \* the gate: allowed, ceiling, failures, successes
  ticks,     \* ticks since the controller went to sleep
  granted,   \* tokens granted by the current bucket since then
  late       \* tokens granted by replaced buckets since then

vars == <<adaptive, queue, pc, calls, attempt, on, fresh, buckets, current, rate, clean,
          congested, typical, ctl, rows, refused, gate, ticks, granted, late>>
thread  == <<queue, pc, calls, attempt, on, fresh>>
limiter == <<buckets, current>>
control == <<rate, clean, congested, typical, ctl>>
ledger  == <<rows, refused>>
meter   == <<ticks, granted, late>>

NoBucket == 0
Ids == 1..(Cardinality(Threads) + 2)  \* one for each waiter, the current one, a new one
NoRows == [sent |-> 0, ok |-> 0, bad |-> 0]

Lower(a, b) == IF a <= b THEN a ELSE b
Higher(a, b) == IF a >= b THEN a ELSE b

InFlight == Cardinality({t \in Threads : pc[t] \notin {"idle", "gate"}})

-----------------------------------------------------------------------------
(***************************************************************************)
(* The token bucket and the wrapper that swaps it.                         *)
(***************************************************************************)
Full(r) == [rate |-> r, tokens |-> Window * r]

Refilled(b) == [b EXCEPT !.tokens = Lower(Window * b.rate, @ + b.rate)]

(* A generation the limiter hands out or somebody waits at; the others are *)
(* garbage.                                                                *)
InUse(id) == id = current \/ \E t \in Threads : on[t] = id
Unused == CHOOSE id \in Ids : ~InUse(id)

(* retune: nothing at the same rate, else a new, full bucket. Who waits at *)
(* the old one stays there.                                                *)
Retuned(r) ==
  IF current = NoBucket \/ buckets[current].rate = r
    THEN UNCHANGED limiter
    ELSE buckets' = [buckets EXCEPT ![Unused] = Full(r)] /\ current' = Unused

(***************************************************************************)
(* What the controller makes of a window.                                  *)
(***************************************************************************)
(* _unhealthy: over settled rows only. No row has status "rate_limited":   *)
(* the attempt loop settles a refusal as retrying or exhausted.            *)
RateLimited == 0
Unhealthy ==
  LET settled == rows.ok + rows.bad + RateLimited
  IN  settled >= MinSample /\ 2 * rows.ok < settled

(* recommended_threads *)
Wanted == IF congested THEN (rate * typical) \div 2 ELSE rate * typical
RecommendedThreads ==
  IF typical = 0 THEN MinThreads ELSE Lower(MaxThreads, Higher(MinThreads, Wanted))

(***************************************************************************)
(* The gate.                                                               *)
(***************************************************************************)
Resized(allowed) ==
  LET ceiling == Higher(allowed, GateMinimum)
  IN  [gate EXCEPT !.ceiling = ceiling, !.allowed = ceiling]

(* on_transport_failure *)
AfterFailure ==
  IF gate.failures + 1 >= GateStorm /\ gate.allowed > GateMinimum
    THEN [gate EXCEPT !.allowed = Higher(GateMinimum, gate.allowed \div 2), !.failures = 0,
                      !.successes = 0]
    ELSE [gate EXCEPT !.failures = Lower(GateStorm, @ + 1), !.successes = 0]

(* on_success *)
AfterSuccess ==
  IF gate.successes + 1 >= Recovery /\ gate.allowed < gate.ceiling
    THEN [gate EXCEPT !.allowed = @ + 1, !.failures = 0, !.successes = 0]
    ELSE [gate EXCEPT !.failures = 0, !.successes = Lower(Recovery, @ + 1)]

-----------------------------------------------------------------------------
Init ==
  /\ adaptive \in BOOLEAN
  /\ queue = Tasks
  /\ pc = [t \in Threads |-> "idle"] /\ calls = [t \in Threads |-> 0]
  /\ attempt = [t \in Threads |-> 0] /\ on = [t \in Threads |-> NoBucket]
  /\ fresh = [t \in Threads |-> FALSE]
  /\ buckets = [id \in Ids |-> Full(Floor)] /\ current = NoBucket
  /\ rate = Floor /\ clean = 0 /\ congested = FALSE /\ typical = 0 /\ ctl = "asleep"
  /\ rows = NoRows /\ refused = 0
  /\ LET pool == Higher(Cardinality(Threads), GateMinimum)
     IN  gate = [allowed |-> pool, ceiling |-> pool, failures |-> 0, successes |-> 0]
  /\ ticks = 0 /\ granted = 0 /\ late = 0

(***************************************************************************)
(* A task thread.                                                          *)
(***************************************************************************)
TakeTask(t) ==
  /\ pc[t] = "idle" /\ queue > 0
  /\ queue' = queue - 1
  /\ pc' = [pc EXCEPT ![t] = "gate"] /\ calls' = [calls EXCEPT ![t] = Calls]
  /\ UNCHANGED <<adaptive, attempt, on, fresh, limiter, control, ledger, gate, meter>>

(* A waiter looks again when it is notified and every five seconds. *)
EnterGate(t) ==
  /\ pc[t] = "gate" /\ InFlight < gate.allowed
  /\ pc' = [pc EXCEPT ![t] = "ready"]
  /\ UNCHANGED <<adaptive, queue, calls, attempt, on, fresh, limiter, control, ledger, gate,
                 meter>>

(* The row of an attempt is written before it waits for a token. *)
Reserve(t) ==
  /\ pc[t] = "ready"
  /\ pc' = [pc EXCEPT ![t] = "reserved"] /\ fresh' = [fresh EXCEPT ![t] = TRUE]
  /\ attempt' = [attempt EXCEPT ![t] = @ + 1]
  /\ rows' = [rows EXCEPT !.sent = 1]
  /\ UNCHANGED <<adaptive, queue, calls, on, limiter, control, refused, gate, meter>>

(* limiter_for: the first call builds the limiter at the rate of today. *)
FetchBucket(t) ==
  /\ pc[t] = "reserved"
  /\ pc' = [pc EXCEPT ![t] = "waiting"]
  /\ IF current = NoBucket
       THEN buckets' = [buckets EXCEPT ![1] = Full(rate)] /\ current' = 1
       ELSE UNCHANGED limiter
  /\ on' = [on EXCEPT ![t] = current']
  /\ UNCHANGED <<adaptive, queue, calls, attempt, fresh, control, ledger, gate, meter>>

(* Mutant: any part of a token will do. *)
CoversBugPartial(tokens) == tokens > 0

(* Mutant: more than a token, which the lowest rate never holds. *)
CoversBugStrict(tokens) == tokens > Window

Covers(tokens) == tokens >= Window

(* _reserve grants a token. *)
Granted(t) ==
  /\ pc[t] = "waiting" /\ Covers(buckets[on[t]].tokens)
  /\ pc' = [pc EXCEPT ![t] = "sent"]
  /\ buckets' = [buckets EXCEPT ![on[t]].tokens = @ - Window]
  /\ IF on[t] = current
       THEN granted' = granted + 1 /\ UNCHANGED late
       ELSE late' = late + 1 /\ UNCHANGED granted
  /\ on' = [on EXCEPT ![t] = NoBucket]
  /\ UNCHANGED <<adaptive, queue, calls, attempt, fresh, current, control, ledger, gate, ticks>>

(* A row that settles counts for the window it was reserved in. *)
Counted(t, field) == IF fresh[t] THEN [rows EXCEPT ![field] = @ + 1] ELSE rows

AnswerOk(t) ==
  /\ pc[t] = "sent"
  /\ calls' = [calls EXCEPT ![t] = @ - 1] /\ attempt' = [attempt EXCEPT ![t] = 0]
  /\ pc' = [pc EXCEPT ![t] = IF calls[t] > 1 THEN "ready" ELSE "ended"]
  /\ rows' = Counted(t, "ok") /\ fresh' = [fresh EXCEPT ![t] = FALSE]
  /\ UNCHANGED <<adaptive, queue, on, limiter, control, refused, gate, meter>>

(* A refusal that is tried again settles its row as "retrying". *)
RefusedAgain(t) ==
  /\ pc[t] = "sent" /\ attempt[t] < Attempts
  /\ pc' = [pc EXCEPT ![t] = "ready"]
  /\ refused' = IF fresh[t] THEN Lower(Storm429s, refused + 1) ELSE refused
  /\ fresh' = [fresh EXCEPT ![t] = FALSE]
  /\ UNCHANGED <<adaptive, queue, calls, attempt, on, limiter, control, rows, gate, meter>>

(* The last refusal, or an error that is not retried, is a transport       *)
(* failure: the gate hears of it and the task is lost.                     *)
CallFails(t) ==
  /\ pc[t] = "sent"
  /\ attempt' = [attempt EXCEPT ![t] = 0]
  /\ pc' = [pc EXCEPT ![t] = "ended"]
  /\ rows' = Counted(t, "bad") /\ fresh' = [fresh EXCEPT ![t] = FALSE]
  /\ \E forRate \in BOOLEAN :
       refused' = IF forRate /\ fresh[t] THEN Lower(Storm429s, refused + 1) ELSE refused
  /\ gate' = AfterFailure
  /\ UNCHANGED <<adaptive, queue, calls, on, limiter, control, meter>>

(* _finish_task: a lost task counts as a success for the gate as well. *)
FinishTask(t) ==
  /\ pc[t] = "ended"
  /\ gate' = AfterSuccess
  /\ pc' = [pc EXCEPT ![t] = "finished"]
  /\ UNCHANGED <<adaptive, queue, calls, attempt, on, fresh, limiter, control, ledger, meter>>

(* _retune, and the way out of the gate. *)
LeaveGate(t) ==
  /\ pc[t] = "finished"
  /\ gate' = IF adaptive THEN Resized(RecommendedThreads) ELSE gate
  /\ pc' = [pc EXCEPT ![t] = "idle"]
  /\ calls' = [calls EXCEPT ![t] = 0]
  /\ UNCHANGED <<adaptive, queue, attempt, on, fresh, limiter, control, ledger, meter>>

(***************************************************************************)
(* Time and the controller.                                                *)
(***************************************************************************)
Tick ==
  /\ ticks < Window + Overrun
  /\ ticks' = ticks + 1
  /\ buckets' = [id \in Ids |-> IF InUse(id) THEN Refilled(buckets[id]) ELSE Full(Floor)]
  /\ UNCHANGED <<adaptive, thread, current, control, ledger, gate, granted, late>>

(* Without a controller nobody measures. *)
Unwatched ==
  /\ ~adaptive /\ ticks >= Window
  /\ ticks' = 0 /\ granted' = 0 /\ late' = 0
  /\ rows' = NoRows /\ refused' = 0 /\ fresh' = [t \in Threads |-> FALSE]
  /\ UNCHANGED <<adaptive, queue, pc, calls, attempt, on, limiter, control, gate>>

(* step: health and latency of the window, then _react under the lock. The *)
(* storm is never seen (RateLimited).                                      *)
React ==
  /\ adaptive /\ ctl = "asleep" /\ ticks >= Window
  /\ ctl' = "reacted"
  /\ congested' = Unhealthy
  /\ IF rows.ok > 0 THEN typical' \in Latencies ELSE UNCHANGED typical
  /\ CASE RateLimited >= Storm429s -> clean' = 0 /\ rate' = Higher(Floor, (4 * rate) \div 5)
       [] RateLimited < Storm429s /\ rows.sent > 0 ->
            IF clean + 1 >= CleanWindows
              THEN clean' = 0 /\ rate' = Lower(Ceiling, rate + Increase)
              ELSE clean' = clean + 1 /\ UNCHANGED rate
       [] OTHER -> UNCHANGED <<clean, rate>>
  /\ UNCHANGED <<adaptive, thread, limiter, ledger, gate, meter>>

(* Mutant: the limiter is retuned to a rate the edge has left. *)
NextBucketBugFloor == Retuned(Floor)

NextBucket == Retuned(rate)

(* The rest of _react and of the step: retune, log, and sleep. A log that  *)
(* cannot be written ends the step, and its rows are read again.           *)
Retune ==
  /\ ctl = "reacted" /\ ctl' = "asleep"
  /\ NextBucket
  /\ ticks' = 0 /\ granted' = 0 /\ late' = 0
  /\ \/ /\ rows' = NoRows /\ refused' = 0
        /\ fresh' = [t \in Threads |-> FALSE]
     \/ UNCHANGED <<rows, refused, fresh>>
  /\ UNCHANGED <<adaptive, queue, pc, calls, attempt, on, rate, clean, congested, typical, gate>>

ThreadStep(t) ==
  \/ TakeTask(t) \/ EnterGate(t) \/ Reserve(t) \/ FetchBucket(t) \/ Granted(t)
  \/ AnswerOk(t) \/ RefusedAgain(t) \/ CallFails(t) \/ FinishTask(t) \/ LeaveGate(t)
ControlStep == React \/ Retune

Next == (\E t \in Threads : ThreadStep(t)) \/ Tick \/ Unwatched \/ ControlStep

(* Threads run and time passes; an answer comes, of whatever kind. *)
Fairness ==
  /\ \A t \in Threads : WF_vars(ThreadStep(t))
  /\ WF_vars(Tick) /\ WF_vars(Unwatched) /\ WF_vars(ControlStep)

Spec == Init /\ [][Next]_vars /\ Fairness

-----------------------------------------------------------------------------
PacingTypeOK ==
  /\ adaptive \in BOOLEAN /\ queue \in 0..Tasks
  /\ pc \in [Threads -> {"idle", "gate", "ready", "reserved", "waiting", "sent", "ended",
                         "finished"}]
  /\ calls \in [Threads -> 0..Calls] /\ attempt \in [Threads -> 0..Attempts]
  /\ on \in [Threads -> Ids \cup {NoBucket}] /\ fresh \in [Threads -> BOOLEAN]
  /\ buckets \in [Ids -> [rate : Floor..Ceiling, tokens : Nat]]
  /\ current \in Ids \cup {NoBucket}
  /\ rate \in Floor..Ceiling /\ clean \in 0..CleanWindows - 1
  /\ congested \in BOOLEAN /\ typical \in Latencies \cup {0}
  /\ ctl \in {"asleep", "reacted"}
  /\ rows \in [sent : 0..1, ok : Nat, bad : Nat] /\ refused \in 0..Storm429s
  /\ gate \in [allowed : Nat \ {0}, ceiling : Nat \ {0}, failures : 0..GateStorm,
               successes : 0..Recovery]
  /\ ticks \in 0..Window + Overrun /\ granted \in Nat /\ late \in Nat

(* core/llm.py:291 and rate_edge.py:125: whatever is retuned while threads *)
(* wait, between two steps of the controller the bucket in use grants no   *)
(* more than it holds and refills, and a replaced one no more than one     *)
(* token for each thread that was left waiting at it.                      *)
LeftBehind == {t \in Threads : pc[t] = "waiting" /\ on[t] # current}
RateIsKept ==
  /\ current # NoBucket =>
       Window * granted <= Window * buckets[current].rate + buckets[current].rate * ticks
  /\ late + Cardinality(LeftBehind) <= Cardinality(Threads)

(* The bucket calls go through has the rate the edge reports and writes    *)
(* back, although one is changed under the lock and the other after it,    *)
(* and the limiter may be built in between.                                *)
EdgeIsFollowed ==
  current # NoBucket /\ ctl # "reacted" => buckets[current].rate = rate

(* The gate and the buckets never hold a task for ever: halved, resized    *)
(* and retuned in any order, they let every task through in the end.       *)
TasksEnd == <>(queue = 0 /\ \A t \in Threads : pc[t] = "idle")

(* rate_edge.py:11: "multiplicative decrease on any window carrying a      *)
(* burst of 429s", bounded below by the configured value.                  *)
StormBacksOff ==
  [][React /\ refused >= Storm429s
       => rate' < rate \/ rate' = Floor]_vars

(* inject.py:860: the gate is to "halve on a burst of transport failures,  *)
(* creep back up as tasks complete".                                       *)
CreepsBack == [][gate'.allowed <= gate.allowed + 1]_vars
=============================================================================

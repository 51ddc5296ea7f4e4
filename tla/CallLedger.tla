----------------------------- MODULE CallLedger -----------------------------
(***************************************************************************)
(* The call ledger (core/budget.py) and the threads that spend from it     *)
(* through the routed completion (adapters/tau2_llm.py, Tau2Router; the    *)
(* coroutine LLMClient of core/llm.py has the same loop).                  *)
(*                                                                         *)
(* The ledger is one SQLite file shared by every process of a project.     *)
(* Each process opens it with its own cap and its own idea of what the cap *)
(* counts, so both are a function of the caller.  A call is an attempt     *)
(* loop: claim a row, wait for the rate limiter, go on the wire, settle    *)
(* the row, and then deliver, give up, or back off and claim another row.  *)
(* Time is counted in units of the shortest attempt.  The limiter itself   *)
(* is TokenBucket; here it only delays.                                    *)
(***************************************************************************)
EXTENDS Naturals, Sequences, FiniteSets

CONSTANTS
  Callers,      (* threads that make routed calls                          *)
  Procs,        (* processes, the unit of a crash                          *)
  ProcOf,       (* the process of each caller                              *)
  Phases,       (* project phases a row is booked under                    *)
  PhaseOf,      (* the phase of each caller                                *)
  MaxCalls,     (* each caller's cap, or NoCap                             *)
  NoCap,
  CapScope,     (* what the cap counts: "total" or "phase"                 *)
  Hooked,       (* callers whose router was given an on_call hook          *)
  Ramp,         (* the owner of rows written by record(), a rate ramp      *)
  MaxElapsed,   (* retrying stops after this many units                    *)
  CallsEach,    (* bound: calls one caller makes                           *)
  RampRows,     (* bound: rows the ramp records                            *)
  Losses        (* bound: crashes and interrupts                           *)

ASSUME CallersAssumption ==
  /\ ProcOf \in [Callers -> Procs]
  /\ PhaseOf \in [Callers -> Phases]
  /\ Ramp \notin Callers
  /\ Hooked \subseteq Callers

ASSUME CapAssumption ==
  /\ MaxCalls \in [Callers -> Nat \union {NoCap}]
  /\ CapScope \in [Callers -> {"total", "phase"}]
  /\ NoCap \notin Nat

ASSUME BoundsAssumption ==
  /\ MaxElapsed \in Nat
  /\ CallsEach \in Nat
  /\ RampRows \in Nat
  /\ Losses \in Nat

VARIABLES
  rows,     (* the calls table, in row-id order                            *)
  pc,       (* where each caller is in its attempt loop                    *)
  callId,   (* the row of the current attempt, 0 before the first          *)
  elapsed,  (* units since the current call began                          *)
  recorded, (* rows whose response the recording hook has stored           *)
  used,     (* rows whose response was handed to the agent                 *)
  calls,    (* calls begun, for the bound                                  *)
  losses    (* crashes and interrupts so far, for the bound                *)

vars == <<rows, pc, callId, elapsed, recorded, used, calls, losses>>

Settled == {"ok", "error", "exhausted", "retrying"}
Row == [phase : Phases, owner : Callers \union {Ramp},
        status : Settled \union {"reserved"}, sends : Nat]

Resting  == {"idle", "returned", "raised"}
InFlight == {"limiter", "wire"}
PC == Resting \union InFlight \union {"reserve", "hook", "deliver", "backoff"}

TypeOK ==
  /\ rows \in Seq(Row)
  /\ pc \in [Callers -> PC]
  /\ callId \in [Callers -> Nat]
  /\ elapsed \in [Callers -> Nat]
  /\ recorded \subseteq Nat
  /\ used \subseteq Nat
  /\ calls \in [Callers -> Nat]
  /\ losses \in Nat

Goto(c, label) == pc' = [pc EXCEPT ![c] = label]

-----------------------------------------------------------------------------
(* The ledger.                                                             *)

(* The rows a caller's cap counts: the whole file, or its own phase. *)
InScope(c, row) == CapScope[c] = "total" \/ row.phase = PhaseOf[c]
ScopeRowsBugSettledOnly(c) ==  (* bug: a call in flight holds no slot *)
  {i \in DOMAIN rows : InScope(c, rows[i]) /\ rows[i].status # "reserved"}
ScopeRows(c) == {i \in DOMAIN rows : InScope(c, rows[i])}

HasRoomBugInclusive(c) ==  (* bug: <= for < *)
  MaxCalls[c] # NoCap => Cardinality(ScopeRows(c)) <= MaxCalls[c]
HasRoom(c) == MaxCalls[c] # NoCap => Cardinality(ScopeRows(c)) < MaxCalls[c]

NewRow(p, o, s) == [phase |-> p, owner |-> o, status |-> s, sends |-> 0]

(* finish(): an UPDATE of one row, never an insert. *)
Finish(id, s) == rows' = [rows EXCEPT ![id].status = s]

-----------------------------------------------------------------------------
Init ==
  /\ rows = <<>>
  /\ pc = [c \in Callers |-> "idle"]
  /\ callId = [c \in Callers |-> 0]
  /\ elapsed = [c \in Callers |-> 0]
  /\ recorded = {}
  /\ used = {}
  /\ calls = [c \in Callers |-> 0]
  /\ losses = 0

Begin(c) ==
  /\ pc[c] \in Resting
  /\ calls[c] < CallsEach
  /\ Goto(c, "reserve")
  /\ calls' = [calls EXCEPT ![c] = @ + 1]
  /\ callId' = [callId EXCEPT ![c] = 0]
  /\ elapsed' = [elapsed EXCEPT ![c] = 0]
  /\ UNCHANGED <<rows, recorded, used, losses>>

(* reserve(): the count and the insert are one statement. *)
Reserve(c) ==
  /\ pc[c] = "reserve"
  /\ HasRoom(c)
  /\ rows' = Append(rows, NewRow(PhaseOf[c], c, "reserved"))
  /\ callId' = [callId EXCEPT ![c] = Len(rows) + 1]
  /\ Goto(c, "limiter")
  /\ UNCHANGED <<elapsed, recorded, used, calls, losses>>

(* rowcount = 0: BudgetExceededError, on a first attempt or on a retry. *)
RefuseBugWaits(c) ==  (* bug: a refused reservation asks until there is room *)
  /\ pc[c] = "reserve"
  /\ ~HasRoom(c)
  /\ Goto(c, "reserve")
  /\ UNCHANGED <<rows, callId, elapsed, recorded, used, calls, losses>>

Refuse(c) ==
  /\ pc[c] = "reserve"
  /\ ~HasRoom(c)
  /\ Goto(c, "raised")
  /\ UNCHANGED <<rows, callId, elapsed, recorded, used, calls, losses>>

(* acquire_sync() has granted a token and completion_fn is called. *)
Send(c) ==
  /\ pc[c] = "limiter"
  /\ rows' = [rows EXCEPT ![callId[c]].sends = @ + 1]
  /\ Goto(c, "wire")
  /\ UNCHANGED <<callId, elapsed, recorded, used, calls, losses>>

AnswerOk(c) ==
  /\ pc[c] = "wire"
  /\ Finish(callId[c], "ok")
  /\ Goto(c, "hook")
  /\ UNCHANGED <<callId, elapsed, recorded, used, calls, losses>>

(* A status outside RETRYABLE_STATUS_CODES, 401 and 403 among them. *)
AnswerFatal(c) ==
  /\ pc[c] = "wire"
  /\ Finish(callId[c], "error")
  /\ Goto(c, "raised")
  /\ UNCHANGED <<callId, elapsed, recorded, used, calls, losses>>

(* A retryable failure (429, 5xx, or no status at all) out of time. *)
AnswerTooLate(c) ==
  /\ pc[c] = "wire"
  /\ elapsed[c] >= MaxElapsed
  /\ Finish(callId[c], "exhausted")
  /\ Goto(c, "raised")
  /\ UNCHANGED <<callId, elapsed, recorded, used, calls, losses>>

AnswerRetryable(c) ==
  /\ pc[c] = "wire"
  /\ elapsed[c] < MaxElapsed
  /\ Finish(callId[c], "retrying")
  /\ Goto(c, "backoff")
  /\ UNCHANGED <<callId, elapsed, recorded, used, calls, losses>>

(* The sleep ends and the loop claims again: a retry pays for itself. *)
WakeBugFreeRetry(c) ==  (* bug: the retry goes out on the old row *)
  /\ pc[c] = "backoff"
  /\ elapsed' = [elapsed EXCEPT ![c] = @ + 1]
  /\ Goto(c, "limiter")
  /\ UNCHANGED <<rows, callId, recorded, used, calls, losses>>

Wake(c) ==
  /\ pc[c] = "backoff"
  /\ elapsed' = [elapsed EXCEPT ![c] = @ + 1]
  /\ Goto(c, "reserve")
  /\ UNCHANGED <<rows, callId, recorded, used, calls, losses>>

(* The on_call hook stores the response; without a hook nothing does. *)
StoreBugAfterUse(c) ==  (* bug: the hook runs after the response is used *)
  /\ pc[c] = "hook"
  /\ Goto(c, "deliver")
  /\ UNCHANGED <<rows, callId, elapsed, recorded, used, calls, losses>>

Store(c) ==
  /\ pc[c] = "hook"
  /\ recorded' = IF c \in Hooked THEN recorded \union {callId[c]} ELSE recorded
  /\ Goto(c, "deliver")
  /\ UNCHANGED <<rows, callId, elapsed, used, calls, losses>>

(* The caller gets its response and acts on it. *)
Deliver(c) ==
  /\ pc[c] = "deliver"
  /\ used' = used \union {callId[c]}
  /\ Goto(c, "returned")
  /\ UNCHANGED <<rows, callId, elapsed, recorded, calls, losses>>

(* RecordingError: the call stays paid for and its response is dropped. *)
HookFails(c) ==
  /\ pc[c] = "hook"
  /\ c \in Hooked
  /\ Goto(c, "raised")
  /\ UNCHANGED <<rows, callId, elapsed, recorded, used, calls, losses>>

-----------------------------------------------------------------------------
(* What can go wrong around the loop.                                      *)

(* An exception the loop does not catch (KeyboardInterrupt, a cancelled    *)
(* coroutine) leaves the row as it is.                                     *)
Interrupt(c) ==
  /\ pc[c] \in InFlight \union {"backoff"}
  /\ losses < Losses
  /\ losses' = losses + 1
  /\ Goto(c, "raised")
  /\ UNCHANGED <<rows, callId, elapsed, recorded, used, calls>>

(* A process dies and is started again: its threads forget everything, the *)
(* file keeps every row.                                                   *)
CrashBugSweep(p) ==  (* bug: a restart sweeps reserved rows away *)
  /\ losses < Losses
  /\ losses' = losses + 1
  /\ \E c \in Callers : ProcOf[c] = p /\ pc[c] \notin Resting
  /\ pc' = [c \in Callers |-> IF ProcOf[c] = p THEN "idle" ELSE pc[c]]
  /\ rows' = SelectSeq(rows, LAMBDA row : row.status # "reserved")
  /\ UNCHANGED <<callId, elapsed, recorded, used, calls>>

Crash(p) ==
  /\ losses < Losses
  /\ losses' = losses + 1
  /\ \E c \in Callers : ProcOf[c] = p /\ pc[c] \notin Resting
  /\ pc' = [c \in Callers |-> IF ProcOf[c] = p THEN "idle" ELSE pc[c]]
  /\ UNCHANGED <<rows, callId, elapsed, recorded, used, calls>>

(* record(): a row for a call somebody else already made; no cap. *)
RampRecord(p) ==
  /\ Cardinality({i \in DOMAIN rows : rows[i].owner = Ramp}) < RampRows
  /\ rows' = Append(rows, [NewRow(p, Ramp, "ok") EXCEPT !.sends = 1])
  /\ UNCHANGED <<pc, callId, elapsed, recorded, used, calls, losses>>

-----------------------------------------------------------------------------
Attempt(c) ==
  \/ Reserve(c) \/ Refuse(c) \/ Send(c)
  \/ AnswerOk(c) \/ AnswerFatal(c) \/ AnswerTooLate(c) \/ AnswerRetryable(c)
  \/ Wake(c) \/ Store(c) \/ HookFails(c) \/ Deliver(c)

Next ==
  \/ \E c \in Callers : Begin(c) \/ Attempt(c) \/ Interrupt(c)
  \/ \E p \in Procs : Crash(p)
  \/ \E p \in Phases : RampRecord(p)

Spec == Init /\ [][Next]_vars

(* A thread that can take a step of its loop takes one: the pool runs it,  *)
(* the limiter refills, and the provider answers or its client times out.  *)
FairSpec == Spec /\ \A c \in Callers : WF_vars(Attempt(c))

-----------------------------------------------------------------------------
(* Properties.                                                             *)

(* The hard cap, whoever else is inserting: every row a capped caller      *)
(* reserved was placed while fewer rows than its cap were in its scope     *)
(* (budget.py, _INSERT_GUARDED_SQL).  Rows of crashed processes, of other  *)
(* caps and of record() all count.                                         *)
CapHolds ==
  \A i \in DOMAIN rows :
    LET c == rows[i].owner IN
      (c \in Callers /\ MaxCalls[c] # NoCap) =>
        Cardinality({j \in 1..(i - 1) : InScope(c, rows[j])}) < MaxCalls[c]

(* A call in flight has already been paid for: a caller waiting for the    *)
(* limiter or an answer holds a reserved row of its own, which no other    *)
(* caller in flight holds (so nobody else can settle it).                  *)
InFlightHoldsRow ==
  \A c \in Callers : pc[c] \in InFlight =>
    /\ callId[c] \in DOMAIN rows
    /\ rows[callId[c]].owner = c
    /\ rows[callId[c]].status = "reserved"
    /\ rows[callId[c]].sends = IF pc[c] = "wire" THEN 1 ELSE 0

(* One ledger row per attempt: no row pays for two calls, and a row with   *)
(* an outcome stands for a call that was made.                             *)
OneCallPerRow ==
  \A i \in DOMAIN rows :
    /\ rows[i].sends <= 1
    /\ rows[i].status # "reserved" => rows[i].sends = 1

(* Together: every call made has a row of its own that paid for it before  *)
(* it went out, a retry's like a first attempt's, whatever crashes.        *)
PaidBeforeSent == InFlightHoldsRow /\ OneCallPerRow

(* Record-before-use: a hooked caller never acts on a response the hook    *)
(* has not stored, and nobody acts on one the ledger does not show as ok,  *)
(* now (the responses on their way to a caller) or ever (those used).      *)
OnItsWay == {c \in Callers : pc[c] \in {"hook", "deliver"}}

RecordBeforeUse ==
  /\ \A c \in OnItsWay :
       /\ callId[c] \in DOMAIN rows
       /\ rows[callId[c]].owner = c
       /\ rows[callId[c]].status = "ok"
       /\ pc[c] = "deliver" /\ c \in Hooked => callId[c] \in recorded
  /\ \A i \in used :
       /\ i \in DOMAIN rows
       /\ rows[i].status = "ok"
       /\ rows[i].owner \in Hooked => i \in recorded

(* The ledger forgets nothing: rows keep their place, their phase and      *)
(* their outcome for ever, so a later process counts what this one spent.  *)
RowsArePermanent ==
  [][/\ Len(rows') >= Len(rows)
     /\ \A i \in DOMAIN rows :
          /\ rows'[i].phase = rows[i].phase
          /\ rows[i].status \in Settled => rows'[i] = rows[i]]_rows

(* Every call ends: retries stop when their time is up, and a refused      *)
(* reservation ends the call instead of waiting for room that cannot come. *)
CallsEnd == \A c \in Callers : (pc[c] = "reserve") ~> (pc[c] \in Resting)
=============================================================================

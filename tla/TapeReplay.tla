----------------------------- MODULE TapeReplay -----------------------------
(***************************************************************************)
(* Recording a run on the tape, replaying it, and forking it               *)
(* (core/replay.py, core/runner.py, adapters/tau2.py, tau2_replay.py, and  *)
(* the interventions of attribution/interventions.py).                     *)
(*                                                                         *)
(* A session re-drives tau2's real orchestrator from its first step.  The  *)
(* orchestrator is external: what it asks for next is a function of the    *)
(* answers it has had, hist.  Who answers is the engine's business: a live *)
(* source while recording; the tape during a replay; the tape up to and    *)
(* including the fork step and a live source after it during a fork.       *)
(* Sessions of one process that run at the same time are Dispatcher.       *)
(*                                                                         *)
(* An LLM request is its message history and its system prompt, so two     *)
(* requests have one hash exactly when they are equal.  The world is the   *)
(* number of writes made to it, and a tool's true result shows it.         *)
(***************************************************************************)
EXTENDS Naturals, Sequences

CONSTANTS
  MaxSteps, (* the orchestrator stops a run here                           *)
  MaxRuns,  (* bound: runs on the tape                                     *)
  Kinds,    (* interventions a fork may be asked for                       *)
  Hooks     (* may the environment be flaky or have a planted fault?       *)

ASSUME ReplayAssumption ==
  /\ MaxSteps \in Nat
  /\ MaxRuns \in Nat
  /\ Kinds \subseteq {"noop", "resample", "edit", "replace", "truth", "force"}
  /\ Hooks \subseteq BOOLEAN

VARIABLES
  runs,    (* the tape: runs in the order they were started                *)
  job,     (* the session in progress, or the last one                     *)
  hist,    (* answers the orchestrator has had                             *)
  world,   (* the environment's database                                   *)
  cursor,  (* steps taken from the parent's tape                           *)
  events,  (* the replayer's own count of this run's steps                 *)
  verdict  (* how the session ended, or "running"                          *)

vars == <<runs, job, hist, world, cursor, events, verdict>>

Tools     == {"read", "write"}
AgentSays == Tools \union {"say"}
UserSays  == {"say", "stop"}
Verdicts  == {"yes", "no"}
LLMActors == {"agent", "user", "evaluator"}
Wrong     == 99   (* a tool result that is not the true one *)
NoOutcome == 2

Event == [by : LLMActors \union {"tool"},
          said : AgentSays \union UserSays \union Verdicts, result : Nat]
Step == [event : Event, asked : Seq(Event), prompt : {"plain", "edited"},
         before : Nat, after : Nat, from_tape : BOOLEAN]
Job == [kind : {"record", "replay", "fork"}, parent : Nat, step : Nat,
        mode : {"verify", "snapshot", "rerun_live"}, iv : Kinds \union {"noop"},
        hook : BOOLEAN, unsafe : BOOLEAN]

TypeOK ==
  /\ runs \in Seq([steps : Seq(Step), outcome : {0, 1, NoOutcome}])
  /\ job \in Job
  /\ hist \in Seq(Event)
  /\ world \in Nat
  /\ cursor \in Nat
  /\ events \in Nat
  /\ verdict \in {"running", "ended", "verified", "diverged", "aborted"}

-----------------------------------------------------------------------------
(* The world outside the engine.                                           *)

Last(h) == h[Len(h)]

(* Whom the orchestrator asks next; "none" when the run is over. *)
NextActor(h) ==
  IF Len(h) >= MaxSteps THEN "none"
  ELSE IF h = <<>> THEN "agent"
  ELSE LET e == Last(h) IN
    CASE e.by = "agent" /\ e.said \in Tools -> "tool"
      [] e.by = "agent" /\ e.said \notin Tools -> "user"
      [] e.by = "user" /\ e.said = "stop" -> "evaluator"
      [] e.by = "evaluator" -> "none"
      [] OTHER -> "agent"

Sayable(by) == CASE by = "agent" -> AgentSays [] by = "user" -> UserSays
                 [] by = "evaluator" -> Verdicts

Effect(tool, w) == IF tool = "write" THEN w + 1 ELSE w

(* What the environment may answer to a tool call made in world w. *)
Answers(tool, w) == {Effect(tool, w)} \union (IF job.hook THEN {Wrong} ELSE {})

(* tau2's evaluator, a function of the trajectory. *)
Reward(h) == IF h # <<>> /\ Last(h).by = "evaluator" /\ Last(h).said = "yes"
             THEN 1 ELSE 0

-----------------------------------------------------------------------------
(* The engine.                                                             *)

Running == verdict = "running"
Parent  == runs[job.parent].steps
Peek    == Parent[cursor + 1]
Asked   == NextActor(hist)

GovernedBugLate ==  (* bug: the tape governs the step after the fork too *)
  \/ job.kind = "replay"
  \/ job.kind = "fork" /\ events <= job.step + 1
Governed ==
  \/ job.kind = "replay"
  \/ job.kind = "fork" /\ events <= job.step
AtFork == job.kind = "fork" /\ events = job.step
GoesLive == AtFork /\ job.iv \in {"resample", "edit"}
Shaping == job.kind = "fork" /\ job.iv = "edit"

(* The intervention refuses a step of the wrong kind. *)
Applies == AtFork =>
  /\ job.iv \in {"replace", "truth"} => Peek.event.by = "tool"
  /\ job.iv = "force" => Peek.event.by \in LLMActors

(* The recorded step answers the orchestrator's request: TapeLLM.serve. *)
LLMMatches ==
  /\ cursor < Len(Parent)
  /\ Peek.event.by \in LLMActors
  /\ job.unsafe \/ (Peek.asked = hist /\ Peek.prompt = "plain")

(* The recorded step is this tool call: TapeTools.take. *)
ToolMatches ==
  /\ cursor < Len(Parent)
  /\ Peek.event.by = "tool"
  /\ Peek.event.said = Last(hist).said

(* What the step leaves on the tape; a replay's sink only counts it. *)
Recorded(row) ==
  IF job.kind = "replay" THEN UNCHANGED runs
  ELSE runs' = [runs EXCEPT ![Len(runs)].steps = Append(@, row)]

(* One step of the run: recorded, then used. *)
Happens(by, event, prompt, w, tape) ==
  /\ Recorded([event |-> [event EXCEPT !.by = by],
               asked |-> IF by = "tool" THEN <<>> ELSE hist, prompt |-> prompt,
               before |-> world, after |-> w, from_tape |-> tape])
  /\ hist' = Append(hist, event)
  /\ world' = w
  /\ events' = events + 1
  /\ UNCHANGED <<job, verdict>>

Ends(v) == verdict' = v /\ UNCHANGED <<job, hist, world, cursor, events>>

NoJob == [kind |-> "record", parent |-> 0, step |-> 0, mode |-> "snapshot",
          iv |-> "noop", hook |-> FALSE, unsafe |-> FALSE]

-----------------------------------------------------------------------------
Init ==
  /\ runs = <<>>
  /\ job = NoJob
  /\ hist = <<>>
  /\ world = 0
  /\ cursor = 0
  /\ events = 0
  /\ verdict = "ended"

Begins(j) ==
  /\ ~Running
  /\ job' = j
  /\ hist' = <<>>
  /\ world' = 0
  /\ cursor' = 0
  /\ events' = 0
  /\ verdict' = "running"

NewRun ==
  /\ Len(runs) < MaxRuns
  /\ runs' = Append(runs, [steps |-> <<>>, outcome |-> NoOutcome])

(* record_run *)
StartRecord(hook) ==
  /\ NewRun
  /\ Begins([NoJob EXCEPT !.hook = hook])

(* replay_run: in a clean environment, of any run on the tape. *)
StartReplay(p, mode) ==
  /\ mode \in {"verify", "snapshot"}
  /\ Begins([NoJob EXCEPT !.kind = "replay", !.parent = p, !.mode = mode])
  /\ UNCHANGED runs

(* Tau2ForkDriver.run_rest; a step past the end is refused before a run is *)
(* started, and only the re-run-live baseline drops the hash guard.        *)
StartFork(p, step, mode, iv, hook, unsafe) ==
  /\ step < Len(runs[p].steps)
  /\ mode \in {"snapshot", "rerun_live"}
  /\ unsafe => mode = "rerun_live"
  /\ NewRun
  /\ Begins([kind |-> "fork", parent |-> p, step |-> step, mode |-> mode,
             iv |-> iv, hook |-> hook, unsafe |-> unsafe])

(* completion(), served from the tape; the recorded purpose names the      *)
(* actor of the row.                                                       *)
ServeLLM ==
  /\ Running /\ Governed /\ Asked \in LLMActors
  /\ LLMMatches /\ Applies /\ ~GoesLive
  /\ \E said \in IF AtFork /\ job.iv = "force" THEN AgentSays
                 ELSE {Peek.event.said} :
       Happens(Peek.event.by, [by |-> Asked, said |-> said, result |-> 0],
               "plain", world, TRUE)
  /\ cursor' = cursor + 1

(* completion(), live: past the fork, or at it when the intervention says  *)
(* so, in which case the recording of the step has been taken already.     *)
LiveLLM ==
  /\ Running /\ Asked \in LLMActors
  /\ IF Governed THEN LLMMatches /\ GoesLive ELSE TRUE
  /\ \E said \in Sayable(Asked) :
       Happens(Asked, [by |-> Asked, said |-> said, result |-> 0],
               IF Shaping THEN "edited" ELSE "plain", world, FALSE)
  /\ cursor' = IF Governed THEN cursor + 1 ELSE cursor

ToolEvent(result) == [by |-> "tool", said |-> Last(hist).said, result |-> result]

(* get_response() past the fork, or while recording. *)
LiveTool ==
  /\ Running /\ ~Governed /\ Asked = "tool"
  /\ \E result \in Answers(Last(hist).said, world) :
       Happens("tool", ToolEvent(result), "plain",
               Effect(Last(hist).said, world), FALSE)
  /\ UNCHANGED cursor

(* _obtain(): the recorded result and the recorded world, or the tool run  *)
(* again on the world as it is.                                            *)
ObtainedBugNoRestore ==  (* bug: the recorded world is not put back *)
  IF job.mode = "snapshot" THEN {[result |-> Peek.event.result, world |-> world]}
  ELSE {[result |-> r, world |-> Effect(Peek.event.said, world)] :
          r \in Answers(Peek.event.said, world)}
Obtained ==
  IF job.mode = "snapshot" THEN {[result |-> Peek.event.result, world |-> Peek.after]}
  ELSE {[result |-> r, world |-> Effect(Peek.event.said, world)] :
          r \in Answers(Peek.event.said, world)}

(* The intervention at a tool step: LIVE calls the tool once more. *)
Intervened(got) ==
  CASE GoesLive -> {[result |-> r, world |-> Effect(Peek.event.said, got.world)] :
                      r \in Answers(Peek.event.said, got.world)}
    [] AtFork /\ job.iv = "replace" -> {got, [got EXCEPT !.result = Wrong]}
    [] AtFork /\ job.iv = "truth" ->
         {[got EXCEPT !.result = Effect(Peek.event.said, Peek.before)]}
    [] OTHER -> {got}

(* check_reexecution() *)
Agrees(got) == job.mode = "verify" =>
  got.result = Peek.event.result /\ got.world = Peek.after

(* get_response() up to and including the fork step. *)
TapeToolBugCursor ==  (* bug: a served tool step is not taken off the tape *)
  /\ Running /\ Governed /\ Asked = "tool"
  /\ ToolMatches /\ Applies
  /\ \E got \in Obtained :
       /\ Agrees(got)
       /\ \E shown \in Intervened(got) :
            Happens("tool", ToolEvent(shown.result), "plain", shown.world, TRUE)
  /\ UNCHANGED cursor
TapeTool ==
  /\ Running /\ Governed /\ Asked = "tool"
  /\ ToolMatches /\ Applies
  /\ \E got \in Obtained :
       /\ Agrees(got)
       /\ \E shown \in Intervened(got) :
            Happens("tool", ToolEvent(shown.result), "plain", shown.world, TRUE)
  /\ cursor' = cursor + 1

(* DivergenceError, TapeExhaustedError, MisappliedInterventionError. *)
Diverge ==
  /\ Running /\ Governed /\ Asked # "none"
  /\ \/ Asked \in LLMActors /\ ~(LLMMatches /\ Applies)
     \/ Asked = "tool" /\ ~(ToolMatches /\ Applies)
     \/ Asked = "tool" /\ ToolMatches /\ \E got \in Obtained : ~Agrees(got)
  /\ Ends("diverged")
  /\ UNCHANGED runs

(* Anything else that ends a session early: the provider is given up on,   *)
(* a step cannot be recorded, the process is interrupted or killed.  An    *)
(* infrastructure termination is never scored.                             *)
Abort ==
  /\ Running
  /\ verdict' = "aborted"
  /\ job' = NoJob
  /\ hist' = <<>>
  /\ world' = 0
  /\ cursor' = 0
  /\ events' = 0
  /\ UNCHANGED runs

(* The orchestrator is done: score a new run, or compare a replayed one    *)
(* (check_replay_complete, check_same_outcome).                            *)
FinishRun ==
  /\ Running /\ Asked = "none" /\ job.kind # "replay"
  /\ runs' = [runs EXCEPT ![Len(runs)].outcome = Reward(hist)]
  /\ Ends("ended")

Reproduced ==
  /\ cursor = Len(Parent)
  /\ runs[job.parent].outcome = Reward(hist)

FinishReplay ==
  /\ Running /\ Asked = "none" /\ job.kind = "replay"
  /\ Ends(IF Reproduced THEN "verified" ELSE "diverged")
  /\ UNCHANGED runs

-----------------------------------------------------------------------------
Start ==
  /\ ~Running
  /\ \/ \E hook \in Hooks : StartRecord(hook)
     \/ \E p \in DOMAIN runs, mode \in {"verify", "snapshot"} : StartReplay(p, mode)
     \/ \E p \in DOMAIN runs : \E step \in 0..(Len(runs[p].steps) - 1),
           mode \in {"snapshot", "rerun_live"},
           iv \in Kinds, hook \in Hooks, unsafe \in BOOLEAN :
          StartFork(p, step, mode, iv, hook, unsafe)

Work == \/ ServeLLM \/ LiveLLM \/ LiveTool \/ TapeTool
        \/ Diverge \/ FinishRun \/ FinishReplay

Next == Start \/ Work \/ Abort

Spec == Init /\ [][Next]_vars

-----------------------------------------------------------------------------
(* Properties.                                                             *)

Child == runs[Len(runs)].steps
Forking == job.kind = "fork"

Unmarked(row) == [row EXCEPT !.from_tape = TRUE]

(* A fork is its parent up to the fork step: every row below it, requests, *)
(* answers and worlds, is the parent's own row, and the fork step was      *)
(* reached by the same request; with the no-op intervention, the control   *)
(* arm, that row is the parent's as well.  With tools run again in the     *)
(* prefix this is promised of the requests only, and by the unguarded      *)
(* baseline not at all.  In every mode, nothing below the fork step is     *)
(* paid for, and everything past it is.                                    *)
PrefixIsTheParents ==
  /\ Forking /\ ~job.unsafe =>
       \A i \in DOMAIN Child : i <= job.step + 1 =>
         /\ Child[i].asked = Parent[i].asked
         /\ Child[i].event.by = Parent[i].event.by
         /\ job.mode = "snapshot" /\ (i <= job.step \/ job.iv = "noop") =>
              Child[i] = Unmarked(Parent[i])
  /\ Forking => \A i \in DOMAIN Child :
       /\ i <= job.step => Child[i].from_tape
       /\ i > job.step + 1 => ~Child[i].from_tape

(* The engine's four ideas of where the run is never drift apart while it  *)
(* runs: the replayer's count, the orchestrator's history, the recorder's  *)
(* next index, and the cursor up to the fork.                              *)
LockStep == Running =>
  /\ events = Len(hist)
  /\ job.kind # "replay" => Len(Child) = events
  /\ job.kind = "replay" => cursor = events
  /\ Forking => cursor = IF events <= job.step THEN events ELSE job.step + 1

(* Only a run that was driven to its end by the answers on its own tape    *)
(* has an outcome, and it is the reward of those answers: nothing diverged *)
(* or cut short is ever scored, by the unguarded baseline neither.  And a  *)
(* replay is verified only if it lived through its recording's answers one *)
(* for one to the recorded reward; in verify mode the tools agreed.        *)
Trajectory(run) == [i \in DOMAIN run.steps |-> run.steps[i].event]

VerdictsAreEarned ==
  /\ \A r \in DOMAIN runs : runs[r].outcome # NoOutcome =>
       /\ NextActor(Trajectory(runs[r])) = "none"
       /\ runs[r].outcome = Reward(Trajectory(runs[r]))
  /\ verdict = "verified" =>
       /\ Len(hist) = Len(Parent)
       /\ \A i \in DOMAIN hist : hist[i].said = Parent[i].event.said
                              /\ hist[i].result = Parent[i].event.result
       /\ runs[job.parent].outcome = Reward(hist)
       /\ job.mode = "verify" => world = (IF Parent = <<>> THEN 0 ELSE Last(Parent).after)

(* A tool acted on the world its row shows before it (adapters/tau2.py,    *)
(* begin_step), or the row was inherited from a tape where it did not.  The*)
(* one step for which the code breaks this is a tool step at which a fork  *)
(* goes live: the recorded call has been made when the live one is.        *)
Explained(row) == row.event.by = "tool" => row.after = Effect(row.event.said, row.before)

ToolsActOnTheirBefore ==
  Running /\ job.kind # "replay" =>
    \A i \in DOMAIN Child : ~Explained(Child[i]) =>
      \/ Forking /\ i = job.step + 1 /\ job.iv \in {"resample", "edit"}
      \/ Forking /\ i <= job.step + 1 /\ ~Explained(Parent[i])

(* A recording does not diverge from itself.  A run that finished replays  *)
(* to the end, and any run forks at any of its steps, unless its requests  *)
(* were edited on the way out, or the tools are run again where they may   *)
(* answer differently. A tape of the unguarded baseline is no exception.   *)
Edited(run) == \E i \in DOMAIN run.steps : run.steps[i].prompt = "edited"
Honest(run) == \A i \in DOMAIN run.steps :
  LET row == run.steps[i] IN
    row.event.by = "tool" => Explained(row) /\ row.event.result = row.after

NoFalseDivergence ==
  verdict = "diverged" =>
    LET from == runs[job.parent] IN
      \/ Edited(from)
      \/ job.kind = "replay" /\ from.outcome = NoOutcome
      \/ Forking /\ ~Applies
      \/ job.mode # "snapshot" /\ (job.hook \/ ~Honest(from))

(* A fork is its parent up to the fork step, because the engine never loses*)
(* its place while it serves it.                                           *)
ForkIsTheParent == LockStep /\ PrefixIsTheParents

(* What a session says in the end is true: a reward was lived, a           *)
(* verification agreed to the end, and a divergence is a difference.       *)
VerdictsAreTrue == VerdictsAreEarned /\ NoFalseDivergence
=============================================================================

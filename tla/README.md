# Verification of agent-bisect

`agent-bisect` finds the step of a failed agent run that caused the failure. It
records a tau2 run on a tape, replays it, forks it at a step with an
intervention, and compares how often the forks pass. This directory holds a
TLA+ model of the parts of that program in which order, concurrency, failure
and restarts decide whether the numbers it reports, and shows, are right, the
TLC runs that check the model, and proofs about its central components.

Paths are relative to the repository; `bench/inject.py` stands for
`src/agent_bisect/bench/inject.py`. The line-by-line correspondence of every
definition with the code is the `map` of `PROJECT.json`.

- [1. The system](#1-the-system)
- [2. Modules](#2-modules)
- [3. Runs](#3-runs)
- [4. Fairness](#4-fairness)
- [5. What is proved](#5-what-is-proved)
- [6. Disagreements between the code and what it says](#6-disagreements-between-the-code-and-what-it-says)
- [7. What is only checked, and what is not modelled](#7-what-is-only-checked-and-what-is-not-modelled)
- [8. Plan](#8-plan)

## 1. The system

One Python process runs a command (`record`, `replay`, `blame`, `inject`,
`eval`, `gate`). It drives tau2's orchestrator in thread pools, one simulated
conversation per thread, through two process-wide hooks into tau2. Everything
that has to survive is a file below `runs/`: the SQLite call ledger, the tape of
blobs and manifests, journals, status files, results. Processes meet only
through those files.

| component | state | operations | what makes it hard | what makes it correct |
|---|---|---|---|---|
| **Call ledger** `core/budget.py` | `calls` table: phase, status, one row per attempt | `reserve`, `finish`, `record`, `spent` | threads and processes with different caps count one file; crashes leave reserved rows; `record` ignores caps | the cap is hard; every attempt pays; rows never go away |
| **LLM client, router** `core/llm.py`, `adapters/tau2_llm.py` | attempt loop per thread | reserve, limiter, wire, settle, retry, hook, deliver | retries, interrupts, a failing hook, a budget that ends between attempts | a response is recorded before it is used; a call ends |
| **Tape and replay engine** `core/replay.py`, `core/runner.py`, `core/tape.py`, `adapters/tau2.py`, `adapters/tau2_replay.py` | tape of rows; cursor, event counter and step index of a session; the tau2 world | record, verify, snapshot replay, fork | three counters that move in different places; served and live steps in one run; the world must follow | a fork is its parent up to the fork step; nothing diverges from itself; only a lived run is scored |
| **Interventions** `attribution/interventions.py` | none (a function of the fork step) | no-op, resample, edit, replace, truthful, force | go live at the fork step, after the recorded answer was taken | they change the fork step and nothing before it |
| **Fork executor** `adapters/tau2_fork.py`, `attribution/search.py` | run ids on the tape and their outcomes | look up a draw, choose an id, start, retry, give up | ids are chosen by looking and taken later; two processes; a crash burns an id | a draw is paid once and always has one answer |
| **Evaluation lock, split lock** `bench/run_lock.py`, `bench/split_lock.py` | a pid file, a marker file | check, claim, release; guard, open | looked at first, written later, in place | one evaluation at a time; one look at the test split; a crash blocks nobody |
| **Seams into tau2** `adapters/tau2_replay.py` (dispatcher), `tau2_llm.py` (`route_tau2_llm`), `tau2_judge.py` | three module attributes of tau2 and a context variable per thread | open and close a session, install, bind, call, uninstall, set the judge | threads install and remove one stand-in in any order while others call through it | each thread hears its own replayer; the seam is left as found; the chosen judge judges |
| **Evaluation** `cli_eval.py`, `bench/eval_run.py`, `bench/evaluate.py`, `bench/results.py`, `scripts/p5_supervisor.py` | outcomes and failures of a pass, status file, five result files, the supervisor's count | passes over lost items, sensitivity, publication, restart | items fail in threads; a pass edits what the last one left; the process dies anywhere | an item has one verdict or one failure; only whole evaluations are published; the supervisor stops |
| **Collection** `bench/inject.py`, `bench/journal.py` | one JSON file per decision, counters and lists shared by task threads | record a base run, test its stability, find sites, plant and measure, pass again | threads share attributes; files are written in place and read in bulk; tasks are lost and come back | decisions are made once, kept items are handed over once, no task is dropped, the stop rule stops |
| **Rate controller, limiter, gate** `core/rate_edge.py`, `core/llm.py` (`TokenBucket`), `core/limits.py`, `bench/inject.py` (`InFlightGate`) | one token bucket per model, the controller's rate, clean windows, typical latency; the gate's allowed, ceiling and two streaks | acquire, refill, retune (replace the bucket), react to a window of the ledger, halve, recover, resize | threads wait on a bucket that is replaced; the rate is changed under the lock and the bucket after it; halving and resizing undo each other | the bucket in use has the controller's rate; nothing grants more than it; nobody waits for ever |
| **Suspect search and estimator** `attribution/search.py`, `attribution/estimate.py`, `bench/baselines.py` | per method: suspects left, arms, looks, draws used | sample a batch on a pool, look, stop, blame, start over | draws come back in any order; several methods share a tape; a lost diagnosis starts again from it | the blame is a function of the tape; no draw counts twice; none is bought that the rule did not ask for |
| **Dashboard: Live page** `web/src/features/live` | an `EventSource`, a retry timer, the tab, the last snapshot, a cached first fetch | open, snapshot, error, back off, pause with the tab, retry | events come between a state change and its effects; a page goes while its socket is dying | a page that is looked at has one listener, others none; "live" is true; it recovers |
| **Dashboard: run page** `web/src/features/run-detail` | playhead, rewind sequence and its timer; cached detail, re-runs, diffs per run | select, rewind, tick, change the run below the page | the page stays mounted from run to run; queries answer in any order | the tape tells no verdict that was not reached; animation ends where reduced motion begins |
| **Dashboard: run list** `web/src/pages/RunsPage.tsx`, `web/src/features/runs` | address, draft of the search field, one cached paged query per set of filters | type, debounce, choose, clear, commit, fetch a page, retry | a draft beside an address; fetches that are aborted, refetched, fail; filling itself | rows are those of the filters, and all of them |
| **Dashboard: shell** `web/src/app` | which page is up | navigate, prefetch, palette | what a navigation takes down and what it leaves | above |
| **Dashboard server, pull-request gate, judge prompts, manifests, store, doctor** | files written once, or none | project, format, parse | little | see `components` in `PROJECT.json` |

How they interact. An evaluation (`EvalRun`) takes the lock (`EvalLock`), opens
a session (`Seams`), and in each item thread makes a diagnosis (`Diagnosis`),
which asks the executor for draws (`ForkExecutor`); a draw is a fork (`TapeReplay`) whose live calls go through
the router and pay in the ledger (`CallLedger`). A collection (`Collection`)
records base runs and forks them through the same layers. Each module stands on
what the one below promises: `EvalRun` and `Collection` may assume that an item
ends because `CallsEnd` of `CallLedger` says calls do; `ForkExecutor` may treat
a fork as one step because `TapeReplay` says what a fork is; `Diagnosis` may
treat a draw as one step that happens once because `ForkExecutor` says `PaysOnce`
and `OneAnswer`. `Pacing` decides when a call of any of them may be sent, and
reads the ledger's rows to decide. The layers share no variables, so they are
checked one by one and not as a product. The dashboard reads what the rest has
written; its pages share the browser's tab, the router and the query cache, and
`Dashboard` composes them.

## 2. Modules

Every state-changing operation is one action. Control (guards, early returns,
error paths, order of writes) is kept. Data is reduced to what the properties
distinguish: a model's answer is `say`, `read`, `write` or `stop`; a world is the
number of writes made to it; a tool result is that number or `Wrong`; a journal
record is absent, torn, yes or no. Definitions called `...Bug...` are wrong
versions of the definition that follows them; nothing in a specification uses
them. They are the mutants of `PROJECT.json`, and each is caught by the property
it is listed with.

**`CallLedger`** `rows` is the table; `pc`, `callId`, `elapsed` are the attempt
loop of each caller (a thread with a router). `Reserve` is the guarded `INSERT`
of `core/budget.py:199` (count and insert in one statement, in either scope),
`Refuse` its zero row count, `Send` the call after the limiter has granted a
token, `Answer...` the settlement by kind of answer, `Wake` the next turn of the
loop, `Store`/`HookFails`/`Deliver` the recording hook and what follows it.
`Crash` forgets the threads of a process and keeps the file. `RampRecord` is
`record()`, which writes past every cap. Time is counted in units of the
shortest attempt.

**`BudgetPromise`**, **`CallLedgerBudget`** The abstract budget (claim, then
send, never more than the cap) and the ledger seen by a group of callers that
opened it alike. `KeepsPromise` states the refinement with the group's rows as
claims and those that were sent as calls on the wire.

**`TapeReplay`** One session at a time: `job` says what it is (record, replay,
fork with its step, mode, intervention), `hist` what the orchestrator has been
told, `cursor`, `events` and the length of the child's tape are the three
counters of the code. The orchestrator and the environment are external:
`NextActor` and `Effect` say only whom it asks next and what a tool does to the
world. `ServeLLM`/`TapeTool` are steps answered by the tape with all their
guards, `LiveLLM`/`LiveTool` the live ones, `Diverge` every guard that fails,
`FinishRun`/`FinishReplay` scoring and comparison.

**`ForkExecutor`** `started` and `outcome` are manifests and outcomes on the
tape, per run id. An id is a draw, an attempt and a suffix. `lockers` are the
processes that take `evaluation_lock` (the evaluation does, the other users of
the executor do not); which ones do is chosen at the start. `LostRace` is the
`DuplicateRunError` of `start_run`, which the executor counts as an
infrastructure failure.

**`Diagnosis`** One failed run under the methods of an evaluation, in order.
`ranking` and `plan` are the judge's answer and the methods; `phase`, `todo`,
`treated`, `control` and `looks` are where `estimate_step` stands; `batch` is the
sample on the pool, `records` what the method has used, `effects` its verdicts.
`tape` holds the finished draws under what `rerun_id` hashes (mode, arm, step,
offset, index), so two draws collide only if these agree: digests are taken to be
injective. `Reuse`, `Buy` and `DrawFails` are a thread's draw, `Raise` and `Crash`
the two ways to lose everything but the tape, `Fold...` the sampler putting a
batch in draw order, `KeepSampling` and `StopStep` a look. `Blames` and `Clears`
stand for the statistics: a look, the two arms, and whether the effect is then
decisively above delta or at most delta. The answer is also *defined*, over the
tape alone and without any order (`Worthy`, `Needed`), and compared with what the
actions compute. Methods that only ask the judge draw nothing and are left out.

**`EvalLock`** The start of `bisect eval`, statement by statement: guard, freeze
decision, look for a marker, read it or open it and write it, look for a key, check,
claim, truncate, write, evaluate, release, unlink, with a crash between any two and
any number of starts at once. Nothing keeps a second process out between a look and the
write it is for, neither at the marker nor at the pid file. `met` is history: at which of
the two files two processes have looked before either wrote. The properties name it as
their exception (sections 3 and 6).

**`Seams`** `completion` is `llm_utils.completion`; the dispatcher's `fallback`
and `depth`; `serving` the threads whose context variable names a replayer;
`judge` the constant of tau2 and `saved` what each user of `judge_routed` found.
What Python does in two steps is two: `BeginFork` reads the judge and `Repoint` writes
it, `Call` reads the attribute and `Route` calls what was read. A fork may begin in an
evaluation's session or in none: those of the per-step sensitivity come after the session
is closed (`cli_eval.py:403`). `outer` and `crossed` are history: which forks had the
judge when another came for it, and whether two ever had it otherwise than one inside the
other.

**`EvalRun`** The supervisor's loop (`sup`, `crashes`), the command (`cmd`,
`stage`), one pass over the items on a pool (`queue`, `working`, `rows`,
`failures`, three counters), the status file and five result files with their
age. `Escape` is an I/O error in `save_blame`, which is outside the `try`.
`BeginSensitivity` runs the same passes again for the sensitivity. The report of a pass
is best effort (`bench/eval_run.py:462`): it may be lost, and `told` says whether the last
one was. The JSON results are replaced by rename (`ReplaceJson`). The table is not:
polars opens the published file and fills it (`OpenParquet`, `FillParquet`), or does not
write it where there is no polars (`Polars`) or no row. Whatever ends the command forgets
its memory (`Proceed`) and leaves the files as they are.

**`Collection`** Each thread walks a task through the funnel: `base`,
`stability`, then candidates site by site. `Owed` is "no record in the journal",
`Truncate` and `Fill` the two halves of `write_text`, `FinishTask` the count over
the whole journal, `Raise`/`Unwind` an exception that leaves the pool. `Halt` is
a rejected key or an exhausted budget. `StartProcess` starts or resumes.

**`Pacing`** A task thread takes a task, enters the gate, reserves a row, takes
the bucket *object* the limiter hands out (`FetchBucket`) and waits at that one
(`Granted`), whatever has replaced it since. `buckets` are generations: as many as
can be in use at once (one per thread, the current one, a new one), and the
numbering is reused. `React` and `Retune` are the two halves of the controller's
step, under the lock and after it; a log that cannot be written ends the step with
its window unread. `gate` is halved by `AfterFailure`, raised by `AfterSuccess` and
overwritten by `Resized`. `granted`, `late` and `ticks` are history: what the
properties count between two steps of the controller.

**`LiveStream`** The hook `useLiveStream` and the page around it. Every React
handler is an action and so is the later run of the effects (`RunEffects`), which
closes the old socket, clears the timer and opens a socket unless the tab is
hidden. A socket is `open`, `broken` with its error event still to come, or shut.
`query` is the first snapshot the page fetches beside the stream; `Drawn` and
`Connection` are what it derives on every render.

**`RunDetail`** `detail`, `reruns` and `diffs` are the query cache per run,
`selected` and `rewind` the state of the page, which outlives a change of the run in
the address. `NextRewind`, `BandChunk`, `RewoundCell`, `ClampStep` are the pure
functions of `tapeState.ts` and of the timeline, as operators. `carried` is history. Steps are the
page's own, numbered from 1: tapes number theirs from 0 (`core/tape.py:142`), and the
projection between them is the server's. A refetch that fails keeps its data (`stale`):
the page gives way to the error, while the rewind underneath goes on over the steps it
keeps (`HasSteps`).

**`RunList`** `address`, `shown` and `draft` are the URL, the search the page last
rendered with and the text of the field; `lists` the cached infinite query of each
key. A fetch that nobody watches any more is aborted. `FillsItself` is the effect
that fetches page after page up to `AUTO_PAGE_LIMIT`.

**`Dashboard`** The three under the router. A navigation takes the old page down and
puts the new one up in one step; `journey` bounds which pages are looked at together.

The `MC...` modules hold instances, the `...Proofs` modules proofs: `EvaluationProofs` those
of `EvalLock` and `EvalRun`, `ReplayProofs` those of `TapeReplay` and `Seams` (which is why
`EvalLock` and `Seams` say `LockSpec` and `SeamsSpec`), `DashboardProofs` those of all pages,
the others those of the module they are named after.

## 3. Runs

Twelve runs. Where CHECK_DEADLOCK is FALSE the system stops for good when its
bound is used up (calls made, jobs done, the supervisor stopped).

| run | what it checks | instance, and why it is enough |
|---|---|---|
| `ledger` | `CapHolds`, `PaidBeforeSent`, `RecordBeforeUse`, `RowsArePermanent`, `CallsEnd`, `KeepsPromise` | two threads of one process with cap 3 on all rows, one of another process with cap 2 on its own phase, a ramp row, one retry window, one crash or interrupt. Fewer slots than attempts, so refusals happen at first attempts and at retries, in both scopes. |
| `tape_replay` | `ForkIsTheParent` (prefix and counters), `VerdictsAreTrue` (nothing scored that was not lived, no divergence from itself), `ToolsActOnTheirBefore` | every recording of up to four steps (agent, tool, agent, user: a tool step with a step on each side, in either order), with or without a flaky environment, each fork of it at every step with every intervention in every mode, and replays of both. |
| `fork_executor` | `NothingTwice` (draws are paid once, ids have one writer), `OneAnswer`, `Converges` | one draw (draws share no ids), two processes of which none, one or both take the lock, two attempts with two ids each, three faults: enough to exhaust an attempt and to crash both sides. |
| `diagnosis` | `EvidenceIsReal`, `BlameIsTheTapes`, `BuysWhatItNeeds`, no deadlock | two suspects in either order of the judge beside one that cannot be tested, or none that can; pairs of methods that share their draws (`bisect`, `no_control`) or must not (`rerun_live`), and a control per step; three draws per arm in batches of two, so the last batch is short; two looks, the first one stricter; two threads; two failures or crashes. |
| `eval_lock` | `OneEvaluation`, `SplitOpenedOnce`, `RefusedOnlyByLiving` | three processes, each for the dev split, the test split or a resumption, starting at any time, with the freeze decision written before or meanwhile. Two meet in a window and the third comes after, or two crash and the third meets what they left. |
| `seams` | `OwnVoice`, `SeamIsRestored`, `JudgeNests` | three threads and four jobs: an installer, a second holder, and an onlooker, with one more to come in after the last has left. Forks have the judge one inside another and crossing, in a session and without one. |
| `eval_run` | `Accounted`, `PublishedIsWhole`, `SupervisorEnds` | three items on two workers (one waits while two run), two passes, two failed attempts, with and without the sensitivity; reports that are lost; a table that an attempt died writing. |
| `collection` | `NothingIsLost` (decisions are on disk, no task is dropped), `DecisionsAreFinal`, `NothingNewBeyondTarget`, `CollectionEnds` | two tasks with two sites in two buckets, one of them with a repeated call, on two threads; target 2 and floor 1, so one task can reach the target alone; two passes; two processes. |
| `collection_repeated` | violates `FaultsAreFresh` | as above. |
| `pacing` | `RateIsKept`, `EdgeIsFollowed`, `TasksEnd` | three tasks on two threads (one waits for a thread), with and without the controller; two rates, so the bucket is replaced; two clean windows before the rate goes up, two attempts, two failures that halve the gate, a window of two ticks. `Overrun` 0: the controller is at most as late as the ticks of one window, in the proofs as late as you like. |
| `pacing_storm` | violates `StormBacksOff` | as above. |
| `dashboard` | `ExactlyOneListens`, `LiveIsEarned`, `Recovers`, `SettlesAsReduced`, `NeverGuessed`, `TapeMovesForward`, `RewindSettles`, `RowsAreTheFilters`, `FillsUp` | journeys between the Live page and two runs, between the runs alone, by a reader who does or does not prefer reduced motion (`Still`), or in the run list, with other pages in between. Two sockets and two timers, so that a second of either would be seen. Run `a` has five steps and was blamed at the fourth (a band of more than one slice, a tail to replay), with treated re-runs of both verdicts there; `b` has two steps, fewer than the playhead may carry over, and was tested in vain at the second. Refetches fail in the journeys between the runs alone (`Shaky`). Four searches: one has more pages than the list fetches by itself, one matches nothing. |

Type invariants are in every module. They are proved (section 5), so no run repeats them;
put the name in the cfg to see one checked. What the properties say in words is written
above each in its module.

Some things hold only with an exception, and the property names it:

- `ToolsActOnTheirBefore` (a tool step of a fork acted on the world its row says it did)
  excepts an intervention that goes live at a tool step: the recorded result is obtained,
  and the world moved, before the intervention is asked, so the tool runs twice
  (`adapters/tau2_replay.py:349`). Only LLM steps are resampled today.
- `OwnVoice` lets a recording be answered by nobody: a thread that is not replaying can
  read the dispatcher and call it after its last holder has left, which raises
  `RuntimeError` (`adapters/tau2_replay.py:423`).
- `OneEvaluation` and `SplitOpenedOnce` except runs in which two processes looked at the
  pid file, or at the marker, before either had written it (`met`). Then two evaluate, or
  two open the test split. In every other run, with any crashes, stale pids, torn files and
  resumptions, neither happens.
- `JudgeNests` says what holds of the judge while no two forks have *crossed*: while each
  that came for the judge found the earlier one's write done, and left first.
- `PublishedIsWhole` lets the table be torn, while it is written and after an attempt died
  writing it; the JSON copy, which the code calls authoritative, is then whole beside it,
  and a supervisor that reports success leaves no such table.
- `Accounted` asks the status file to be honest only if the last report reached it.

## 4. Fairness

Safety is checked without fairness. The liveness properties assume:

- `ledger`: weak fairness of each caller's loop. The pool runs its threads, the
  limiter refills, and the client has a timeout, so the provider answers or the
  call fails. Nothing is assumed of a call beginning.
- `fork_executor`: weak fairness of each thread's steps and of leaving, and of
  *some* process entering. Forks end because calls do; an evaluation that ended
  short is resumed by an operator or by `scripts/p5_supervisor.py`. Faults are
  bounded, not fair.
- `eval_run`: weak fairness of the supervisor as a whole and of the command as a
  whole. No fairness of success: every item may fail every time.
- `collection`: weak fairness of the process's steps as a whole; nothing is
  assumed about starting again.
- `pacing`: weak fairness of each thread, of the clock and of the controller. Threads
  run, provider calls have a timeout, the waits on the bucket and on the gate wake by
  themselves (a sleep, a wait of five seconds). Nothing is assumed about which answer
  comes: a call may be refused until its attempts are exhausted, every time.
- `dashboard`: weak fairness of what the browser runs by itself (effects, timers, error
  events of dead sockets, the end of a fetch, one way or the other, the router's commit)
  and of the server's frames on an open stream. No fairness of the reader: nobody need
  press Retry, and `Recovers` and `FillsUp` hold without it. They are conditional on what
  the code cannot bring about: a server that stays up under a tab that stays visible, and
  fetches that do not fail for ever.

## 5. What is proved

Every safety property of the passing runs, invariants and action properties, is a theorem:
ten components, with no bound on callers, processes, threads, jobs, rows, the length of a
run, suspects, draws, items, tasks, sites, passes, crashes, rates, runs, steps, searches,
sockets or timers. The assumptions are those named in the modules (`...Assumption`): they
say what kind of value a constant is and what the code's own checks guarantee, such as a
floor not above the ceiling, or that items, tasks and sites are finitely many.

**The ledger** (`CallLedgerProofs`). Every caller has a process and a phase, the ramp is
nobody, caps are naturals or `NoCap`, and a group's callers opened the file alike. The
inductive invariant is `Inv`: types, cap, flights, one call per row, and record before
use, all together. It is inductive only together: the cap and the row properties are about
the table, and a table changes in three ways (not at all, one row updated, one row added,
`AttemptEffect`). To know that `Send` and the answers update a row *of the table*, and one
that nobody else has in flight, one needs `InFlightHoldsRow`; to know that an update keeps
the counts under the cap one needs that it keeps phases and owners (`UpdateFrame`,
`CapSurvives`); and that a new row fits under its owner's cap, and does not disturb anybody
else's, is `CapInsert`. `RecordBeforeUse` has the part about responses on their way to a
caller in it (`OnItsWay`) because what is used next is what is on its way now.

**The tape** (`ReplayProofs`). `TapeInv` has the checked properties and what they rest
on. `RowsOk` is about the tape alone and about every row on it, whoever wrote it: it was its
actor's turn, it was asked with the answers above it, it acted on the world they left. The
rest ties the session in progress to the tape: its own rows are what it has lived (`Lived`);
while it is served, it has heard the *turns* of its parent (`Follows`, in every mode, the
unguarded baseline too), and its very answers and worlds where the tools cannot answer
differently (`FollowsExactly`). `Follows` is what makes the request at the cursor come from
the actor of the recorded row (`PeekFacts`); `FollowsExactly` makes its hash the recorded one,
so nothing diverges, and its row the parent's row. The four ways to take a step are brought to
one form (`Fits`: what is recorded, told and counted, and what the tape has a say in), and each
conjunct is then proved once. The proof needs no assumption about what the orchestrator's
actors say, which is external, only that whose turn it is depends on the last answer and on
how many there are.

**The seams** (`ReplayProofs`). `SeamsInv` adds to the types and the three properties that
`depth` is the *number* of threads between install and uninstall (`Counted`), what each
place of a job allows (`JobsFit`), that only such threads are served, and what tau2's
attribute is while anybody holds it. `SeamIsRestored` alone says nothing about a state
with holders, so it cannot be inductive; `Counted` is what makes the last to leave the one
that restores. For the judge, while no forks have crossed: at most one fork has read it and
not written it (`Repointed`); the forks that have it form a stack, each with what it found
(`Nested`, `JudgeFits`): the outermost found tau2's own, the others the chosen one, so that
what the innermost puts back is right for the next; and who runs inside is judged by the
chosen one (`Judging`). A collection is the case of a stack of one, the main thread.

**The lock** (`EvaluationProofs`). `LockInv`: a pid in the file is of a process that
evaluates or has crashed (`LockIsOf`); nobody is past the first look at the split before
the freeze decision (`Declared`). While no two have met at the pid file, whoever holds the
lock is named in it and whoever is about to write it is alone (`Alone`); while none have at
the marker, whoever marks the split is alone in having found it unmarked (`Marked`). Both
are about the window between look and write, and neither could be said of the files alone.
No theorem assumes anything about when evaluations are started.

**The fork executor** (`ForkExecutorProofs`). `ForkInv`: processes that take the lock are
in one at a time, and a thread stands where its process is in (`Standing`); an id with an
outcome was started, and threads that run different draws or belong to different processes
hold different ids (`Written`). `PaysOnce` is not inductive: a second purchase is prevented
when a thread *looks*, long before it pays. `Paid` therefore counts the forks of a draw that
have ended together with the threads that missed it and may still buy (`Late`), and adds
that the tape shows an answer as soon as one was bought. `Told` says that what was given is
on the tape, and that under the lock all recordings of a draw agree. That the first free id
is free, and the first recorded one recorded, needs a least natural number, taken from the
well-foundedness of `<` (`LeastOfNaturals`).

**A diagnosis** (`DiagnosisProofs`). The specification samples, folds and looks; the
properties speak of the answer defined over the tape alone. What ties them is that at look
`j` an arm *is* what the tape says of the draws due by then (`Stands` for the step under
way, `Settled` for a finished one), that no earlier look was decisive (`UndecidedBefore`),
and that a step still to come has used nothing (`Untouched`). None of the three checked
properties is inductive without it: to add a batch to an arm as a set of draws, one must know
that none of them was counted before (`SampleIsFolded`), which is so because their offsets lie
past those of every earlier look (`DueWithTheBatch`); and to say that a thread's next draw was
needed, that the looks before it decided nothing (`NextDrawIsNeeded`). Everything is said of
the tape as it is now, so it must survive the tape's growth: `ArmStays`, `UndecidedStays`,
`NeededStays`, `SettledStays` say that draws added elsewhere change no count of draws that
were already there. That is also why a diagnosis that is lost and made again cannot answer
differently. `Blames` and `Clears` are arbitrary operators, so the result holds for any
statistics, as long as they depend on the look and the arms alone. Of the parameters only
what `SequentialConfig` checks is assumed, of the ranking only that it is a sequence of
steps: it may be empty or repeat itself.

**An evaluation** (`EvaluationProofs`). `EvalInv` adds to `Accounted` and `PublishedIsWhole`
that the counters count what they should (`Tallies`: `done` of this pass and of those before
is the number of verdicts, `attempted` what has left the queue), that a pass is over only
when its queue and its workers are empty (`PassIsOver`), that an evaluation published, or
going on to its sensitivity, answered every item (`PrimaryIsWhole`), that a sensitivity
that was scored is of every item or of none (`ScoredIsWhole`), and that the files are
written in order (`FilesInOrder`: new files are there only of a command that publishes or
has published, the table is opened when it is next, none is due once the command has
succeeded). `PublishedIsWhole` alone is not kept by `Publish`: which rows a file gets was
settled a pass earlier. `Ledger` says of the items what `Accounted` does, and of the status
file what it says if the last report reached it.
`Tallies` is arithmetic over how many
items have a verdict (`Count`), brought down to one item changing at a time
(`CountOneMore`), with the queue, the workers, the verdicts and the failures as four sets
that fit into the items (`FourFit`).

**A collection** (`CollectionProofs`). What a thread does next rests on what it, or a thread
of an earlier process, wrote before: `BuiltOnDisk` says for each place of a thread what must
already be in the journal and what cannot be there yet, which makes records final.
`HandedOver` says that a task which has given an item is not queued again and its thread is
past that site; without it a task that comes back could hand the item over twice.
`NobodyForgotten` says that, until something is raised or the collection stops, each task is
queued, lost, settled or a thread's, and `Alone` that it is no two threads'; they give
`NothingIsDropped` when the last pass ends. `Counted` says that once all threads are idle the
count is that of the journal, which is `NothingNewBeyondTarget`.

**Pacing** (`PacingProofs`). `PacingInv` adds to the types where a thread stands
(`Standing`: it waits at a bucket exactly when it is at that place) and `Metered`, the
account of the current bucket: what it granted and what it still holds is at most what it
began with and was refilled. `RateIsKept` follows because the rest is not negative. That
the numbering of buckets can be reused is a counting argument (`SomeBucketIsUnused`).

**The dashboard** (`DashboardProofs`). Each page has an invariant of its own (`LiveInv`,
`DetailInv`, `ListInv`), proved over that page's next-state relation; a step of the whole is a step or a stutter of
each page (`DashStepIsLive`, ...), so their conjunction `DashInv` is inductive for the
whole. `LiveInv` needs that the socket and the timer the hook *refers to* are the ones there
are (`Wired`), since cleanup only reaches those. `DetailInv` has a case per phase of the
rewind (`OwnRewind`): between `intervened` and `settled` the band is complete and the tail
is between the step and the end. `ListInv` says of every cached list, shown or not, that it
is sound (`Sound`), since any may be shown next.

| theorem | says |
|---|---|
| `LedgerInvariant` | `Spec => []Inv` |
| `LedgerTypes`, `CapIsHard`, `CallsArePaid`, `RecordedBeforeUsed` | its conjuncts `TypeOK`, `CapHolds`, `PaidBeforeSent` (which is `InFlightHoldsRow` and `OneCallPerRow`), `RecordBeforeUse` |
| `SpendingIsPermanent` | `RowsArePermanent`: settled rows never change, and no row disappears |
| `LedgerKeepsPromise` | `KeepsPromise`: each step of the whole system is, for one group of callers, a claim, a send, or nothing. Beside `Inv` it needs `Booked` (a row is booked under its owner's phase, so callers alike count the same rows), and that every positive natural is a possible row id. |
| `TapeTypes`, `TapeForkIsTheParent`, `TapeVerdictsAreTrue`, `TapeToolsAct` | `TypeOK`, `ForkIsTheParent`, `VerdictsAreTrue`, `ToolsActOnTheirBefore` |
| `SeamsTypes`, `SeamsOwnVoice`, `SeamsRestored`, `SeamsJudged` | `SeamsTypeOK`, `OwnVoice`, `SeamIsRestored`, `JudgeNests` |
| `LockTypes`, `LockIsExclusive`, `LockRefusesForLiving`, `SplitIsOpenedOnce` | `LockTypeOK`, `OneEvaluation`, `RefusedOnlyByLiving`, `SplitOpenedOnce` |
| `DiagTypes`, `BlameIsOfTheTape`, `EvidenceIsOnTape`, `NothingIsBoughtInVain` | `TypeOK` (no arm outgrows `MaxN`, no look is past the last), `BlameIsTheTapes`, `EvidenceIsReal`, `BuysWhatItNeeds` |
| `EvalTypes`, `EveryItemIsAccounted`, `OnlyWholeIsPublished` | `TypeOK`, `Accounted`, `PublishedIsWhole` |
| `CollectionTypes`, `CollectionLosesNothing`, `CollectionIsFinal`, `CollectionStops` | `TypeOK`, `NothingIsLost`, `DecisionsAreFinal`, `NothingNewBeyondTarget` |
| `ForkTypes`, `ForkNothingTwice`, `ForkOneAnswer` | `TypeOK`, `NothingTwice`, `OneAnswer` |
| `PacingTypes`, `PacingKeepsTheRate`, `PacingFollowsTheEdge` | `PacingTypeOK` (the rate is in its bracket, the gate admits at least one task), `RateIsKept`, `EdgeIsFollowed` |
| `DashTypes`, `DashListens`, `DashLive`, `DashRows`, `DashSettles`, `DashNeverGuessed`, `DashTapeMovesForward` | the pages' types, `ExactlyOneListens`, `LiveIsEarned`, `RowsAreTheFilters`, `SettlesAsReduced`, `NeverGuessed`, `TapeMovesForward` |

## 6. Disagreements between the code and what it says

Found while modelling. The first two are runs and `findings`.

1. The repeated calls of a base run are kept in an attribute that all task
   threads share (`collection_repeated`).
2. The controller counts ledger rows with a status that the router's attempt loop never
   writes, so it never sees a refusal: a storm is a clean window, and the rate goes up
   (`pacing_storm`).

The next ones are stated as properties in the modules, and no run spends itself on them.
Put the name in the cfg to see the counterexample.

3. `JudgedByChosen` (`MCSeams.cfg`): `judge_routed` is entered by every fork thread of an
   evaluation and restores what it found: the first to leave takes the chosen judge from
   the others, the last may leave it behind. `JudgeNests` says when it does not happen. A
   collection, which enters it once, is not affected.
4. `SplitTouchedOnce` (`MCEvalLock.cfg`): "The test split is touched once, and the code is
   what enforces it" (`bench/split_lock.py:1`), but `marker.exists()` (line 85) and
   `write_text` (line 104) are two steps with nothing between that keeps others out, and
   the pid lock comes later: two starts that both find no marker both open the split. The
   same window is in the pid lock (`bench/run_lock.py`): without its exception
   `OneEvaluation` fails of two evaluations started together.
5. `WrittenAtomically` (`MCEvalRun.cfg`): "Every file is written atomically"
   (`bench/results.py:17`, and "Deterministic and atomic", line 139), but the table is
   written into the published file by polars (line 127): a crash there leaves half of one.
6. `SensitivityIsWhole` (`MCEvalRun.cfg`): a per-step sensitivity is never asked whether it
   is complete. One that lost everything is published as accuracy over no items; one that
   lost something raises and takes the complete primary evaluation with it.
7. `ReadsItself` (`MCCollection.cfg`): a record is written in place while other threads
   read the directory; the exception ends the collection.
8. `CreepsBack` (`MCPacing.cfg`, with `MaxThreads = 3`): the gate is to creep back up after
   a burst, but with a controller the resize after every task puts it back to the whole pool
   at once.
9. `NotAvailableIsShown` (`MCDashboard.cfg`, as the next ones): the server names the event
   `not_available`, the hook listens to `snapshot` and `error`; numbers stay drawn after
   the server has said that it has none.
10. `InterventionIsTheRewinds`: a rewind names its step beside the intervention of the
    playhead, which may have moved on.
11. `CarriedIsNotDrawn`, `PlayheadOnTape`: the run page stays mounted when the address goes
    from run to run, and draws the last run's rewind, and a playhead past the end, over the
    new one's tape.
12. `ClearedIsCleared`, `ChoicesAreKept`: clearing the filters leaves a draft that its
    debounce applies again; a draft typed while the router commits another text is lost.

And in `LiveStream`, `TabIsFollowed`: a tab that is hidden between the first render and the
first effects is not noticed, as the listener is registered by the effects; the socket is
opened for a page nobody sees.

The others follow from reading the code beside the model, and no run shows them.

13. A rejected credential makes items fail, which makes an attempt incomplete,
    which the supervisor retries before it looks for a rejected credential.
14. A lock is stale only if no process has its pid. A pid that was given out
    again blocks every evaluation. Pids are not reused in the model.
15. A crash inside the write of the split marker leaves an empty file, and every
    later call, `--resume` included, dies reading it (the end `bad_marker`).
16. The lock is held for the primary evaluation only: the per-step sensitivity runs after
    it was released (`cli_eval.py:383-410`), and so does the publication. Another
    evaluation may start meanwhile on the same runs directory, which two are never to
    share (`bench/run_lock.py`).
17. The supervisor's own status writes (`scripts/p5_supervisor.py:127`, `:183`, `:240`) are
    not best effort as those of a pass are: an I/O error there ends it. Not modelled.
18. A reused draw reports no calls, on purpose (`adapters/tau2_fork.py:199`), where
    the type says "calls is the LLM calls its live suffix spent"
    (`attribution/search.py:133`). So the cost of a diagnosis that was retried, or
    of `no_control` after `bisect`, is what it spent that time, not what its draws
    cost.
19. The tool that runs twice, and the answer by nobody, of section 3.

## 7. What is only checked, and what is not modelled

*Only model-checked.* All liveness (`CallsEnd`, `Converges`, `SupervisorEnds`,
`CollectionEnds`, `TasksEnd`, `Recovers`, `FillsUp`, `RewindSettles`), which the proof
system cannot do under fairness, and the absence of deadlock. That a diagnosis ends is not
stated: its run finds no deadlock, and arms, looks and faults are bounded.

*Abstracted.* Backoff lengths, message texts, prompts, hashes (two requests have
the same hash when they are equal), costs, redaction. The SQLite file is one
atomic statement at a time, which is what its transactions give. A rename is
atomic, `write_text` is not.

*External.* tau2's orchestrator and environment, the provider, the operating
system's files and pids: modelled as the code in `src/` uses them, and marked so
in the map.

In the dashboard: a fetch that is tried again is one answer, pixels and durations are left
out. A background refetch of a run brings the same steps, or fails; one of an intervention
diff, of a step's payload or of a state diff is not modelled.

*Not modelled.* Prompting and parsing of the judge, statistics in floating point (constants
of `Diagnosis`), the metrics and the cost curve computed from finished results, manifests and
tables, the batch recorder, the pull-request gate, the doctor and the fixtures; and, planned,
the shards of a collection. The sensitivity of an evaluation is modelled in `EvalRun` and
in `Seams`, not in `EvalLock`, whose lock it runs without. `PROJECT.json` lists each with its reason.

Of the TypeScript under `web/`, the map covers the parts that keep state and change it: the
stream hook, the rewind, the run list, the router, the palette's way into a run. By lines that
is little of it. The rest is vendored charts (`web/src/components/charts`, the majority of
the lines), a generated API schema, styled components and pages that draw one query: they
have no state beyond hover and animation frames, and no order of steps to get wrong. A
definition that stood for their lines would stand for layout. The core of the program is the
Python under `src/agent_bisect`, to which most definitions of the map refer.

## 8. Plan

The order is that of importance: what decides whether a reported number is true
comes first.

| | module | abstract specification | state |
|---|---|---|---|
| 1 | `CallLedger` | `BudgetPromise` | checked, proved |
| 2 | `TapeReplay` | a recording is what was lived, a fork its parent (`VerdictsAreTrue`, `ForkIsTheParent`), in the module | checked, proved |
| 3 | `ForkExecutor` | a draw is bought once and has one answer (`PaysOnce`, `OneAnswer`), in the module | checked, proved |
| 4 | `EvalLock`, `Seams` | | checked, proved |
| 5 | `Diagnosis` | the answer defined over the tape (`Worthy`, `Needed`), in the module | checked, proved |
| 6 | `EvalRun`, `Collection` | | checked, proved |
| 7 | `Pacing`: the gate, the bucket that is replaced under its waiters, the controller | no more than the rate between two steps of the controller (`RateIsKept`) | checked, proved |
| 8 | `LiveStream`, `RunDetail`, `RunList`, `Dashboard` | reduced motion's end state (`SettlesAsReduced`), in the module | checked, proved |
| 9 | shards of `Collection`; the truth lock and fault accounting of `ForkExecutor` | | then |

Theorems still worth having: that a diagnosis pays for a draw once whatever its threads do,
from the two modules it is now in (`BuysWhatItNeeds` of `Diagnosis`, `NothingTwice` of
`ForkExecutor`); an abstract specification of a fork as one atomic draw, implemented by a
session, which would let `ForkExecutor` be checked on top of `TapeReplay` instead of beside
it; and one of a collection as a set of decisions that only grows, implemented by `Collection`.

----------------------------- MODULE RunDetail ------------------------------
(***************************************************************************)
(* The page of one run in the dashboard (src/web/src/features/run-detail): *)
(* its queries, the playhead on the tape, and the rewind that plays a      *)
(* recorded re-run back, one timer tick after another.                     *)
(*                                                                         *)
(* The router keeps the page mounted when a reader goes from a run         *)
(* straight to another, by the palette or the back button                  *)
(* (AppShell.tsx:47), and the page's state with it.                        *)
(*                                                                         *)
(* Abstracted: pixels, effects and intervals; a rerun is its verdict; a    *)
(* query tries again inside one step; a background refetch of a complete   *)
(* run brings the same steps, or fails.                                    *)
(***************************************************************************)
EXTENDS Integers, FiniteSets

CONSTANTS
  Runs,        \* the runs that were recorded
  NoRun,
  StepsOf,     \* StepsOf[r]: the steps of run r
  BlamedIn,    \* BlamedIn[r]: the blamed step of run r, 0 when none was
  TreatedOf,   \* TreatedOf[r][k]: the verdicts of the treated reruns of step k
  BandChunks,  \* BAND_CHUNKS
  PageStep     \* PAGE_STEP

ASSUME DetailAssumption ==
  /\ NoRun \notin Runs
  /\ StepsOf \in [Runs -> Nat \ {0}]
  /\ \A r \in Runs : /\ BlamedIn[r] \in 0..StepsOf[r]
                     /\ TreatedOf[r] \in [1..StepsOf[r] -> SUBSET BOOLEAN]
  /\ BandChunks \in Nat \ {0} /\ PageStep \in Nat \ {0}

VARIABLES
  shownRun,  \* the run in the address, NoRun on other pages
  detail,    \* the cached query of each run
  reruns,    \* the cached query of each run's reruns
  diffs,     \* <<run, step>>: the intervention diffs that were fetched
  selected,  \* state: the step the reader chose, 0 before a choice
  rewind,    \* state: the rewind sequence
  carried,   \* it was started over another run, and came along
  reduced    \* the reader prefers reduced motion

detailVars == <<shownRun, detail, reruns, diffs, selected, rewind, carried, reduced>>

CacheState == {"none", "pending", "data", "stale", "error"}
Kept == {"data", "stale"}  \* stale: the answer is kept, a later fetch failed
Phase == {"idle", "rewinding", "intervened", "replaying", "settled"}
Passed == {"unknown", "yes", "no"}

Idle == [step |-> 0, phase |-> "idle", replayed |-> 0, passed |-> "unknown", banded |-> 0]

LeastOf(a, b) == IF a <= b THEN a ELSE b
MostOf(a, b) == IF a >= b THEN a ELSE b

-----------------------------------------------------------------------------
(***************************************************************************)
(* What the page derives from its state on every render.                   *)
(***************************************************************************)
(* The page is drawn; a failed refetch puts its error in place of the page *)
(* (RunDetailView.tsx:96), over the steps it keeps and counts with.        *)
Loaded == shownRun # NoRun /\ detail[shownRun] = "data"
HasSteps == shownRun # NoRun /\ detail[shownRun] \in Kept
NSteps == IF HasSteps THEN StepsOf[shownRun] ELSE 0

Playhead ==
  CASE selected # 0                                        -> selected
    [] selected = 0 /\ HasSteps /\ BlamedIn[shownRun] # 0  -> BlamedIn[shownRun]
    [] OTHER                                               -> 1

(* clampStep *)
ClampStep(step, n) == LeastOf(MostOf(step, 1), MostOf(1, n))

(* The treated reruns of a step; none while the query has no rows, and an  *)
(* error has none, whatever it keeps (unwrapReruns).                       *)
TreatedAt(step) ==
  IF shownRun # NoRun /\ reruns[shownRun] = "data" /\ step \in 1..StepsOf[shownRun]
    THEN TreatedOf[shownRun][step] ELSE {}

(* The line "step k tool result replaced" is drawn with the diff fetched   *)
(* for the playhead.                                                       *)
ShowsIntervention ==
  /\ Loaded /\ rewind.phase # "idle"
  /\ TreatedAt(Playhead) # {} /\ <<shownRun, Playhead>> \in diffs

(***************************************************************************)
(* tapeState.ts: what each cell of the tape looks like.                    *)
(***************************************************************************)
OutcomeState(passed) ==
  CASE passed = "yes" -> "passed" [] passed = "no" -> "failed" [] OTHER -> "ran"

Banded == IF rewind.phase = "rewinding" THEN rewind.banded ELSE rewind.step - 1

RewoundCell(step, last) ==
  CASE step < rewind.step -> IF step <= Banded THEN "tape" ELSE "ran"
    [] step = rewind.step -> IF rewind.phase = "rewinding" THEN "ran" ELSE "blamed"
    [] step > rewind.step ->
         CASE rewind.phase = "replaying" /\ step = rewind.replayed + 1 -> "live"
           [] step > rewind.replayed -> "pending"
           [] step = last /\ rewind.phase = "settled" -> OutcomeState(rewind.passed)
           [] OTHER -> "ran"

(* tapeStepStates while a rewind is on; without one nothing is pending. *)
RewoundStates == [step \in 1..NSteps |-> RewoundCell(step, NSteps)]

(* start: the tape band, or under reduced motion the end of the sequence. *)
Started(step, passed) ==
  IF reduced
    THEN [step |-> step, phase |-> "settled", replayed |-> NSteps, passed |-> passed,
          banded |-> step - 1]
    ELSE [step |-> step, phase |-> "rewinding", replayed |-> step, passed |-> passed,
          banded |-> 0]

(* bandChunk: the ceiling of (step - 1) / BandChunks, at least one. *)
BandChunk(step) == MostOf(1, (step - 2 + BandChunks) \div BandChunks)

(* Mutant: the band overshoots into the step that was rewound to. *)
NextRewindBugBand(r, n) ==
  IF r.phase = "rewinding"
    THEN LET banded == r.banded + BandChunk(r.step)
         IN  IF banded >= r.step - 1 THEN [r EXCEPT !.phase = "intervened", !.banded = banded]
                                     ELSE [r EXCEPT !.banded = banded]
    ELSE IF r.replayed >= n
           THEN [r EXCEPT !.phase = "settled"]
           ELSE [r EXCEPT !.phase = "replaying", !.replayed = @ + 1]

(* Mutant: the next slice starts from the front again. *)
NextRewindBugRestart(r, n) ==
  IF r.phase = "rewinding"
    THEN LET banded == BandChunk(r.step)
         IN  IF banded >= r.step - 1 THEN [r EXCEPT !.phase = "intervened", !.banded = r.step - 1]
                                     ELSE [r EXCEPT !.banded = banded]
    ELSE IF r.replayed >= n
           THEN [r EXCEPT !.phase = "settled"]
           ELSE [r EXCEPT !.phase = "replaying", !.replayed = @ + 1]

(* Mutant: the tail starts over from the intervention. *)
NextRewindBugBack(r, n) ==
  IF r.phase = "rewinding"
    THEN LET banded == r.banded + BandChunk(r.step)
         IN  IF banded >= r.step - 1 THEN [r EXCEPT !.phase = "intervened", !.banded = r.step - 1]
                                     ELSE [r EXCEPT !.banded = banded]
    ELSE IF r.replayed >= n
           THEN [r EXCEPT !.phase = "settled", !.replayed = r.step]
           ELSE [r EXCEPT !.phase = "replaying", !.replayed = @ + 1]

(* nextRewind: one tick of a sequence that has not settled. *)
NextRewind(r, n) ==
  IF r.phase = "rewinding"
    THEN LET banded == r.banded + BandChunk(r.step)
         IN  IF banded >= r.step - 1 THEN [r EXCEPT !.phase = "intervened", !.banded = r.step - 1]
                                     ELSE [r EXCEPT !.banded = banded]
    ELSE IF r.replayed >= n
           THEN [r EXCEPT !.phase = "settled"]
           ELSE [r EXCEPT !.phase = "replaying", !.replayed = @ + 1]

-----------------------------------------------------------------------------
DetailInit ==
  /\ shownRun = NoRun
  /\ detail = [r \in Runs |-> "none"] /\ reruns = [r \in Runs |-> "none"]
  /\ diffs = {} /\ selected = 0 /\ rewind = Idle /\ carried = FALSE
  /\ reduced \in BOOLEAN

(* A query without data, one that failed included, is fetched when its key *)
(* comes to be watched; a fetch nobody watches any more is aborted.        *)
Watched(cache, r) ==
  [x \in Runs |-> CASE cache[x] \in Kept -> cache[x]
                    [] cache[x] \notin Kept /\ x = r -> "pending"
                    [] cache[x] \notin Kept /\ x # r -> "none"]

(* The address names a run. Only a page that was not mounted starts anew. *)
EnterRun(r) ==
  /\ r # shownRun /\ shownRun' = r
  /\ detail' = Watched(detail, r) /\ reruns' = Watched(reruns, r)
  /\ IF shownRun = NoRun
       THEN selected' = 0 /\ rewind' = Idle /\ carried' = FALSE
       ELSE carried' = (rewind.phase # "idle") /\ UNCHANGED <<selected, rewind>>
  /\ UNCHANGED <<diffs, reduced>>

LeaveRun ==
  /\ shownRun # NoRun /\ shownRun' = NoRun
  /\ detail' = Watched(detail, NoRun) /\ reruns' = Watched(reruns, NoRun)
  /\ selected' = 0 /\ rewind' = Idle /\ carried' = FALSE
  /\ UNCHANGED <<diffs, reduced>>

(* onIntent of a row of the run list: a hover warms the cache, and a fetch *)
(* that fails is not heard of.                                             *)
Prefetched(r) ==
  /\ shownRun = NoRun /\ detail[r] \in {"none", "stale"}
  /\ detail' = [detail EXCEPT ![r] = "data"]
  /\ UNCHANGED <<shownRun, reruns, diffs, selected, rewind, carried, reduced>>

DetailAnswers ==
  /\ shownRun # NoRun /\ detail[shownRun] = "pending"
  /\ \E answer \in {"data", "error"} : detail' = [detail EXCEPT ![shownRun] = answer]
  /\ UNCHANGED <<shownRun, reruns, diffs, selected, rewind, carried, reduced>>

(* "data" stands for an answer with rows; a run without reruns, and a      *)
(* server that has none yet, are runs with nothing in TreatedOf.           *)
RerunsAnswer ==
  /\ shownRun # NoRun /\ reruns[shownRun] = "pending"
  /\ \E answer \in {"data", "error"} : reruns' = [reruns EXCEPT ![shownRun] = answer]
  /\ UNCHANGED <<shownRun, detail, diffs, selected, rewind, carried, reduced>>

(* A query that has data is fetched again when it is watched anew, when    *)
(* the connection returns, and by Retry. Until that succeeds an error      *)
(* stays.                                                                  *)
DetailRefetched ==
  /\ HasSteps
  /\ \E answer \in Kept : detail' = [detail EXCEPT ![shownRun] = answer]
  /\ UNCHANGED <<shownRun, reruns, diffs, selected, rewind, carried, reduced>>

RerunsRefetched ==
  /\ shownRun # NoRun /\ reruns[shownRun] \in Kept
  /\ \E answer \in Kept : reruns' = [reruns EXCEPT ![shownRun] = answer]
  /\ UNCHANGED <<shownRun, detail, diffs, selected, rewind, carried, reduced>>

(* The Retry buttons of the page and of the reruns panel, where there is   *)
(* nothing to keep.                                                        *)
RetryDetail ==
  /\ shownRun # NoRun /\ detail[shownRun] = "error"
  /\ detail' = [detail EXCEPT ![shownRun] = "pending"]
  /\ UNCHANGED <<shownRun, reruns, diffs, selected, rewind, carried, reduced>>

RetryReruns ==
  /\ Loaded /\ reruns[shownRun] = "error"
  /\ reruns' = [reruns EXCEPT ![shownRun] = "pending"]
  /\ UNCHANGED <<shownRun, detail, diffs, selected, rewind, carried, reduced>>

(* The diff of the playhead, asked for only where the step was treated. *)
DiffAnswers ==
  /\ TreatedAt(Playhead) # {} /\ <<shownRun, Playhead>> \notin diffs
  /\ diffs' = diffs \cup {<<shownRun, Playhead>>}
  /\ UNCHANGED <<shownRun, detail, reruns, selected, rewind, carried, reduced>>

(***************************************************************************)
(* The playhead.                                                           *)
(***************************************************************************)
(* A drag, the forest plot, the dot matrix, the judge, Home and End. *)
SelectStep(step) ==
  /\ Loaded /\ step \in 1..NSteps
  /\ selected' = step
  /\ UNCHANGED <<shownRun, detail, reruns, diffs, rewind, carried, reduced>>

(* Arrow and page keys. *)
KeyMoves(delta) ==
  /\ Loaded
  /\ selected' = ClampStep(Playhead + delta, NSteps)
  /\ UNCHANGED <<shownRun, detail, reruns, diffs, rewind, carried, reduced>>

(***************************************************************************)
(* The rewind.                                                             *)
(***************************************************************************)
(* Mutant: the verdict is that of any failed rerun. *)
StartRewindBugAll ==
  /\ Loaded /\ TreatedAt(Playhead) # {}
  /\ rewind' = Started(Playhead, IF TreatedAt(Playhead) = {TRUE} THEN "yes" ELSE "no")
  /\ carried' = FALSE
  /\ UNCHANGED <<shownRun, detail, reruns, diffs, selected, reduced>>

(* The button is disabled where nothing was treated. One rerun that passed *)
(* is enough.                                                              *)
StartRewind ==
  /\ Loaded /\ TreatedAt(Playhead) # {}
  /\ rewind' = Started(Playhead, IF TRUE \in TreatedAt(Playhead) THEN "yes" ELSE "no")
  /\ carried' = FALSE
  /\ UNCHANGED <<shownRun, detail, reruns, diffs, selected, reduced>>

ResetRewind ==
  /\ Loaded /\ rewind.phase # "idle"
  /\ rewind' = Idle /\ carried' = FALSE
  /\ UNCHANGED <<shownRun, detail, reruns, diffs, selected, reduced>>

(* The timer runs whatever the page draws, a run still loading and an      *)
(* error included.                                                         *)
Tick ==
  /\ shownRun # NoRun /\ rewind.phase \notin {"idle", "settled"}
  /\ rewind' = NextRewind(rewind, NSteps)
  /\ UNCHANGED <<shownRun, detail, reruns, diffs, selected, carried, reduced>>

DetailInside ==
  \/ DetailAnswers \/ RerunsAnswer \/ DiffAnswers \/ RetryDetail \/ RetryReruns
  \/ \E step \in 1..NSteps : SelectStep(step)
  \/ \E delta \in {-PageStep, -1, 1, PageStep} : KeyMoves(delta)
  \/ StartRewind \/ ResetRewind \/ Tick

DetailRefetches == DetailRefetched \/ RerunsRefetched

DetailNext ==
  (\E r \in Runs : EnterRun(r) \/ Prefetched(r)) \/ LeaveRun \/ DetailInside \/ DetailRefetches

(* The timer is the browser's. *)
DetailFairness == WF_detailVars(Tick)

DetailSpec == DetailInit /\ [][DetailNext]_detailVars /\ DetailFairness

-----------------------------------------------------------------------------
RewindType ==
  [step : Nat, phase : Phase, replayed : Nat, passed : Passed, banded : Nat]

DetailTypeOK ==
  /\ shownRun \in Runs \cup {NoRun}
  /\ detail \in [Runs -> CacheState] /\ reruns \in [Runs -> CacheState]
  /\ diffs \subseteq Runs \X Nat
  /\ selected \in Nat /\ rewind \in RewindType
  /\ carried \in BOOLEAN /\ reduced \in BOOLEAN

(* The rewind drawn is this run's. *)
Own == Loaded /\ rewind.phase # "idle" /\ ~carried

(* useRewindSequence.ts:3: "Reduced motion jumps straight to the settled   *)
(* state, which is the same before/after the animation would have          *)
(* reached." And while the tape moves, exactly the steps before the one    *)
(* rewound to can come from tape.                                          *)
SettlesAsReduced ==
  Own =>
    /\ rewind.phase = "settled" => rewind.replayed = NSteps /\ rewind.banded = rewind.step - 1
    /\ rewind.banded < rewind.step

(* tapeState.ts:16: "Outcome of the recorded treated re-run, once known.   *)
(* Never guessed." The last cell tells a verdict only when the sequence    *)
(* settled, and a verdict some treated rerun of the step reached, also     *)
(* when the reruns cannot be fetched again. A rewind that came along from  *)
(* another run is the exception (CarriedIsNotDrawn).                       *)
NeverGuessed ==
  Own =>
    LET cell == RewoundStates[NSteps]
        reached == TreatedOf[shownRun][rewind.step]
    IN  /\ cell \in {"passed", "failed"} => rewind.phase = "settled"
        /\ cell = "passed" => TRUE \in reached
        /\ cell = "failed" => reached = {FALSE}

(* A cell only moves forward through a sequence: a step back on tape stays *)
(* on tape, a step that was re-run is not pending again.                   *)
Rank == [pending |-> 0, live |-> 1, ran |-> 2, tape |-> 3, blamed |-> 3, passed |-> 3,
         failed |-> 3]
TapeMovesForward ==
  [][Tick /\ Own =>
       \A k \in 1..NSteps : Rank[RewoundStates'[k]] >= Rank[RewoundStates[k]]]_detailVars

(* A rewind comes to rest, unless the reader starts it over for ever. *)
RewindSettles ==
  []<>(rewind.phase \in {"idle", "settled"}) \/ []<><<StartRewind>>_detailVars

(* StepTimeline.tsx:383 names the step of the rewind beside the values of  *)
(* the intervention it shows.                                              *)
InterventionIsTheRewinds == ShowsIntervention => Playhead = rewind.step

(* tapeState.ts:16 again, without the exception: no verdict is drawn on    *)
(* the tape of a run whose steps were not rewound; and the playhead, which *)
(* comes along as well, is on the tape.                                    *)
CarriedIsNotDrawn == Loaded /\ rewind.phase # "idle" => ~carried
PlayheadOnTape == Loaded => Playhead \in 1..NSteps
=============================================================================

-------------------------- MODULE DashboardProofs --------------------------
(***************************************************************************)
(* Proofs about the dashboard: its three pages one after the other (the    *)
(* Live page for any sockets, timers and tries, the run page for any runs, *)
(* steps and verdicts, the run list for any filters and any number of      *)
(* pages), and then that the pages keep their promises inside the          *)
(* dashboard.  Every lemma about a page is about one step of that page, so *)
(* that the dashboard, which takes such steps among others, inherits them. *)
(***************************************************************************)
EXTENDS Dashboard, TLAPS

(***************************************************************************)
(* The Live page.                                                          *)
(***************************************************************************)
(* What the effects have to do with the wires they left behind: which is   *)
(* all that keeps a late error or timer from opening a second connection.  *)
Wired ==
  /\ OneConnection
  /\ ~mounted \/ ~listening => applied = "never"
  /\ applied = "never" => Held = {} /\ timers = {} /\ state = "connecting"
  /\ applied = "hidden" => Held = {} /\ timers = {}
  /\ applied = "visible" /\ ~bumped => Held # {} \/ timers # {}

LiveInv == LiveTypeOK /\ Wired /\ LiveIsEarned

USE LiveAssumption

(* The counters: a failure more is still counted, up to their limits.      *)
LEMMA Counters ==
  /\ 0 \in 0..OfflineAfter /\ 0 \in 0..MaxRetries
  /\ \A n \in 0..OfflineAfter : n < OfflineAfter => n + 1 \in 0..OfflineAfter
  /\ \A n \in 0..MaxRetries : n < MaxRetries => n + 1 \in 0..MaxRetries
  OBVIOUS

(* Before the page is opened it has no socket, no timer and no frame.      *)
LEMMA LiveStart == LiveInit => LiveInv
  BY Counters DEF LiveInit, LiveInv, LiveTypeOK, Wired, LiveIsEarned, OneConnection,
     Held, SocketState,
         QueryState, Answer

(* Types first: every action assigns values of the type. *)
LEMMA LiveTypesStep ==
  ASSUME LiveTypeOK, [LiveNext]_liveVars
  PROVE  LiveTypeOK'
  <1> USE DEF LiveTypeOK, SocketState, QueryState, Answer, env, wires, hook, cache
  <1>1. CASE LiveWorld
    <2>1. CASE ServerStops
      <3>1. socket' \in [Sockets -> {"shut", "open", "broken"}]
        BY <2>1 DEF ServerStops
      <3>2. up' \in BOOLEAN
        BY <2>1 DEF ServerStops
      <3> QED BY <2>1, <3>1, <3>2 DEF ServerStops
    <2>2. CASE ServerStarts
      BY <2>2 DEF ServerStarts
    <2>3. CASE LedgerChanges
      <3>1. tracking' \in BOOLEAN
        BY <2>3, Zenon DEF LedgerChanges
      <3> QED BY <2>3, <3>1 DEF LedgerChanges
    <2> QED BY <1>1, <2>1, <2>2, <2>3 DEF LiveWorld
  <1>2. CASE TabChanges
    <2>1. hidden' \in BOOLEAN
      BY <1>2 DEF TabChanges
    <2>2. attempt' \in 0..OfflineAfter /\ state' \in SocketState
      BY <1>2, Counters DEF TabChanges
    <2> QED BY <1>2, <2>1, <2>2 DEF TabChanges
  <1>3. CASE Mount \/ Unmount
    BY <1>3, Counters, ZenonT(60) DEF Mount, Unmount
  <1>4. CASE RunEffects
    BY <1>4, ZenonT(60) DEF RunEffects, Cleaned, CleanedTimers
  <1>5. ASSUME NEW s \in Sockets,
               SnapshotArrives(s) \/ NotAvailableArrives(s) \/ ErrorArrives(s)
        PROVE  LiveTypeOK'
    <2>1. CASE SnapshotArrives(s)
      BY <2>1, Counters DEF SnapshotArrives
    <2>2. CASE NotAvailableArrives(s)
      BY <2>2 DEF NotAvailableArrives
    <2>3. CASE ErrorArrives(s)
      BY <2>3, Counters DEF ErrorArrives
    <2> QED BY <1>5, <2>1, <2>2, <2>3
  <1>6. ASSUME NEW t \in Timers, TimerFires(t)
        PROVE  LiveTypeOK'
    BY <1>6 DEF TimerFires
  <1>7. CASE RetryFromStatus \/ RetryFromError
    <2>1. CASE RetryFromStatus
      BY <2>1, Counters DEF RetryFromStatus, RetryNow
    <2>2. CASE RetryFromError
      BY <2>2, Counters DEF RetryFromError, RetryNow
    <2> QED BY <1>7, <2>1, <2>2
  <1>8. CASE QueryAnswers \/ QueryFails
    BY <1>8, Counters DEF QueryAnswers, QueryFails
  <1>9. CASE UNCHANGED liveVars
    BY <1>9 DEF liveVars
  <1> QED BY <1>1, <1>2, <1>3, <1>4, <1>5, <1>6, <1>7, <1>8, <1>9 DEF LiveNext, LiveInside

(* The wires: a connection is opened only where the last one was closed    *)
(* and its retry cancelled.                                                *)
LEMMA WiredStep ==
  ASSUME LiveInv, [LiveNext]_liveVars
  PROVE  Wired'
  <1> USE DEF LiveInv, LiveTypeOK, Wired, OneConnection, Held, env, wires, hook, cache
  <1>1. CASE LiveWorld
    BY <1>1 DEF LiveWorld, ServerStops, ServerStarts, LedgerChanges
  <1>2. CASE TabChanges
    BY <1>2 DEF TabChanges
  <1>3. CASE Mount \/ Unmount
    BY <1>3 DEF Mount, Unmount
  <1>4. CASE RunEffects
    <2>1. CleanedTimers = {} /\ \A s \in Sockets : Cleaned[s] = "shut"
      BY DEF Cleaned, CleanedTimers
    <2>2. timers' = {} /\ mounted' /\ listening'
      BY <1>4, <2>1 DEF RunEffects
    <2>3. CASE hidden
      BY <1>4, <2>1, <2>2, <2>3 DEF RunEffects
    <2>4. CASE ~hidden
      <3>1. PICK s \in Sockets :
              /\ socket' = [Cleaned EXCEPT ![s] = IF up THEN "open" ELSE "broken"]
              /\ source' = s
        BY <1>4, <2>4 DEF RunEffects
      <3>2. socket'[s] # "shut" /\ \A x \in Sockets : x # s => socket'[x] = "shut"
        BY <2>1, <3>1 DEF Cleaned
      <3> QED BY <1>4, <2>2, <2>4, <3>1, <3>2 DEF RunEffects
    <2> QED BY <2>3, <2>4
  <1>5. ASSUME NEW s \in Sockets, SnapshotArrives(s) \/ NotAvailableArrives(s)
        PROVE  Wired'
    BY <1>5 DEF SnapshotArrives, NotAvailableArrives
  <1>6. ASSUME NEW s \in Sockets, ErrorArrives(s)
        PROVE  Wired'
    <2>1. s = source /\ timers = {} /\ applied = "visible"
      BY <1>6 DEF ErrorArrives
    <2>2. Held' = {}
      BY <1>6, <2>1 DEF ErrorArrives
    <2>3. PICK t \in Timers : timers' = {t} /\ timerRef' = t
      BY <1>6, <2>1 DEF ErrorArrives
    <2> QED BY <1>6, <2>1, <2>2, <2>3 DEF ErrorArrives
  <1>7. ASSUME NEW t \in Timers, TimerFires(t)
        PROVE  Wired'
    BY <1>7 DEF TimerFires
  <1>8. CASE RetryFromStatus \/ RetryFromError
    BY <1>8 DEF RetryFromStatus, RetryFromError, RetryNow
  <1>9. CASE QueryAnswers \/ QueryFails
    BY <1>9 DEF QueryAnswers, QueryFails
  <1>10. CASE UNCHANGED liveVars
    BY <1>10 DEF liveVars
  <1> QED
    BY <1>1, <1>2, <1>3, <1>4, <1>5, <1>6, <1>7, <1>8, <1>9, <1>10 DEF LiveNext, LiveInside

(* The label: only a frame sets it, and everything that takes the socket   *)
(* away, or brings the tab back to an old one, takes it off.               *)
LEMMA EarnedStep ==
  ASSUME LiveInv, [LiveNext]_liveVars
  PROVE  LiveIsEarned'
  <1> USE DEF LiveInv, LiveTypeOK, Wired, LiveIsEarned, Connection, Held, env, wires, hook, cache
  <1>1. CASE LiveWorld
    BY <1>1 DEF LiveWorld, ServerStops, ServerStarts, LedgerChanges
  <1>2. CASE TabChanges
    BY <1>2 DEF TabChanges
  <1>3. CASE Mount \/ Unmount
    BY <1>3 DEF Mount, Unmount
  <1>4. CASE RunEffects
    BY <1>4 DEF RunEffects, Cleaned
  <1>5. ASSUME NEW s \in Sockets, SnapshotArrives(s) \/ NotAvailableArrives(s)
        PROVE  LiveIsEarned'
    BY <1>5 DEF SnapshotArrives, NotAvailableArrives
  <1>6. ASSUME NEW s \in Sockets, ErrorArrives(s)
        PROVE  LiveIsEarned'
    BY <1>6 DEF ErrorArrives
  <1>7. ASSUME NEW t \in Timers, TimerFires(t)
        PROVE  LiveIsEarned'
    BY <1>7 DEF TimerFires
  <1>8. CASE RetryFromStatus \/ RetryFromError
    BY <1>8 DEF RetryFromStatus, RetryFromError, RetryNow
  <1>9. CASE QueryAnswers \/ QueryFails
    BY <1>9 DEF QueryAnswers, QueryFails
  <1>10. CASE UNCHANGED liveVars
    BY <1>10 DEF liveVars
  <1> QED
    BY <1>1, <1>2, <1>3, <1>4, <1>5, <1>6, <1>7, <1>8, <1>9, <1>10 DEF LiveNext, LiveInside

(* Every effect, answer and timer of the Live page, and every step of      *)
(* the server, keeps the invariant.                                        *)
LEMMA LiveStep ==
  ASSUME LiveInv, [LiveNext]_liveVars
  PROVE  LiveInv'
  BY LiveTypesStep, WiredStep, EarnedStep DEF LiveInv

(* One socket or one timer while the page is looked at, none otherwise.    *)
LEMMA WiredListens ==
  ASSUME LiveInv
  PROVE  ExactlyOneListens
  BY DEF ExactlyOneListens, LiveInv, LiveTypeOK, Wired, SomebodyListens, Settled, Held

-----------------------------------------------------------------------------
(***************************************************************************)
(* The run page.                                                           *)
(***************************************************************************)
(* A rewind started over the run that is shown: its step was treated, its  *)
(* verdict is the reruns', its band and its tail are within the tape.      *)
OwnRewind ==
  rewind.phase # "idle" /\ ~carried =>
    /\ shownRun \in Runs /\ detail[shownRun] \in Kept
    /\ rewind.step \in 1..StepsOf[shownRun]
    /\ rewind.replayed \in rewind.step..StepsOf[shownRun]
    /\ rewind.banded \in 0..rewind.step - 1
    /\ rewind.phase = "rewinding" => rewind.replayed = rewind.step
    /\ rewind.phase # "rewinding" => rewind.banded = rewind.step - 1
    /\ rewind.phase = "settled" => rewind.replayed = StepsOf[shownRun]
    /\ TreatedOf[shownRun][rewind.step] # {}
    /\ rewind.passed = IF TRUE \in TreatedOf[shownRun][rewind.step] THEN "yes" ELSE "no"

(* A rewind that came along may meet any tape, but it has a step.          *)
DetailInv ==
  /\ DetailTypeOK
  /\ rewind.phase # "idle" => rewind.step > 0
  /\ OwnRewind

USE DetailAssumption

-----------------------------------------------------------------------------
(* The pure parts.                                                         *)
LEMMA ChunkIsPositive ==
  ASSUME NEW step \in Nat
  PROVE  BandChunk(step) \in Nat /\ BandChunk(step) >= 1
  <1>1. (step - 2 + BandChunks) \div BandChunks \in Int
    OBVIOUS
  <1> QED BY <1>1 DEF BandChunk, MostOf

(* A clamped step is a step of the tape.                                   *)
LEMMA ClampIsAStep ==
  ASSUME NEW step \in Int, NEW n \in Nat
  PROVE  ClampStep(step, n) \in Nat /\ ClampStep(step, n) >= 1
  BY DEF ClampStep, LeastOf, MostOf

(* The playhead is 0 before the run is loaded and a step afterwards.       *)
LEMMA PlayheadIsANumber ==
  ASSUME DetailTypeOK
  PROVE  Playhead \in Nat
  BY DEF DetailTypeOK, Playhead, HasSteps

(* Only a step of the run that is shown, with its re-runs loaded, has      *)
(* been treated.                                                           *)
LEMMA TreatedIsAStep ==
  ASSUME DetailTypeOK, NEW step, TreatedAt(step) # {}
  PROVE  /\ shownRun \in Runs /\ reruns[shownRun] = "data"
         /\ step \in 1..StepsOf[shownRun]
         /\ TreatedAt(step) = TreatedOf[shownRun][step]
  BY DEF DetailTypeOK, TreatedAt

(* A tick of a sequence keeps its step and its verdict; the band stops     *)
(* short of the step, and what is replayed never shrinks.                  *)
LEMMA TickAdvances ==
  ASSUME NEW r \in RewindType, NEW n \in Nat, r.step > 0,
         r.phase \in {"rewinding", "intervened", "replaying"}
  PROVE  /\ NextRewind(r, n) \in RewindType
         /\ NextRewind(r, n).step = r.step /\ NextRewind(r, n).passed = r.passed
         /\ \/ /\ r.phase = "rewinding" /\ NextRewind(r, n).phase = "rewinding"
               /\ NextRewind(r, n).banded \in r.banded + 1..r.step - 2
               /\ NextRewind(r, n).replayed = r.replayed
            \/ /\ r.phase = "rewinding" /\ NextRewind(r, n).phase = "intervened"
               /\ NextRewind(r, n).banded = r.step - 1
               /\ NextRewind(r, n).replayed = r.replayed
            \/ /\ r.phase # "rewinding" /\ NextRewind(r, n).phase = "settled"
               /\ NextRewind(r, n).banded = r.banded
               /\ NextRewind(r, n).replayed = r.replayed /\ r.replayed >= n
            \/ /\ r.phase # "rewinding" /\ NextRewind(r, n).phase = "replaying"
               /\ NextRewind(r, n).banded = r.banded
               /\ NextRewind(r, n).replayed = r.replayed + 1 /\ r.replayed < n
  <1> USE DEF RewindType, Phase, Passed
  <1>1. CASE r.phase = "rewinding"
    <2> DEFINE banded == r.banded + BandChunk(r.step)
    <2>1. r.step \in Nat /\ r.banded \in Nat
      OBVIOUS
    <2>2. banded \in Nat /\ banded > r.banded
      <3>1. BandChunk(r.step) \in Nat /\ BandChunk(r.step) >= 1
        BY <2>1, ChunkIsPositive, Zenon
      <3> QED BY <2>1, <3>1
    <2> HIDE DEF banded
    <2>3. CASE banded >= r.step - 1
      <3>1. NextRewind(r, n) = [r EXCEPT !.phase = "intervened", !.banded = r.step - 1]
        BY <1>1, <2>3 DEF NextRewind, banded
      <3>2. r.step - 1 \in Nat
        BY <2>1
      <3> QED BY <1>1, <3>1, <3>2
    <2>4. CASE banded < r.step - 1
      <3>1. NextRewind(r, n) = [r EXCEPT !.banded = banded]
        BY <1>1, <2>1, <2>2, <2>4 DEF NextRewind, banded
      <3> QED BY <1>1, <2>1, <2>2, <2>4, <3>1, SMTT(30)
    <2> QED BY <2>1, <2>2, <2>3, <2>4
  <1>2. CASE r.phase # "rewinding"
    <2>1. r.replayed \in Nat
      OBVIOUS
    <2>2. CASE r.replayed >= n
      <3>1. NextRewind(r, n) = [r EXCEPT !.phase = "settled"]
        BY <1>2, <2>2 DEF NextRewind
      <3> QED BY <1>2, <2>2, <3>1
    <2>3. CASE r.replayed < n
      <3>1. NextRewind(r, n) = [r EXCEPT !.phase = "replaying", !.replayed = r.replayed + 1]
        BY <1>2, <2>1, <2>3 DEF NextRewind
      <3>2. r.replayed + 1 \in Nat
        BY <2>1
      <3>3. [r EXCEPT !.phase = "replaying", !.replayed = r.replayed + 1] \in RewindType
        BY <3>2
      <3> QED BY <1>2, <2>1, <2>3, <3>1, <3>3
    <2> QED BY <2>1, <2>2, <2>3
  <1> QED BY <1>1, <1>2

-----------------------------------------------------------------------------
(* The state without a rewind is a state of the sequence.                  *)
LEMMA IdleIsARewind == Idle \in RewindType /\ Idle.phase = "idle"
  BY DEF Idle, RewindType, Phase, Passed

(* Before a run is opened nothing is loaded and nothing is rewound.        *)
LEMMA DetailStart == DetailInit => DetailInv
  <1> SUFFICES ASSUME DetailInit PROVE DetailInv
    OBVIOUS
  <1>1. rewind \in RewindType /\ rewind.phase = "idle" /\ carried \in BOOLEAN
    BY IdleIsARewind DEF DetailInit
  <1>2. detail \in [Runs -> CacheState] /\ reruns \in [Runs -> CacheState]
    BY DEF DetailInit, CacheState
  <1> QED BY <1>1, <1>2 DEF DetailInit, DetailInv, DetailTypeOK, OwnRewind

(* Of a rewind that is left alone: the steps it was started over are kept. *)
LEMMA RewindStays ==
  ASSUME DetailInv, UNCHANGED <<shownRun, rewind, carried>>,
         shownRun \in Runs /\ detail[shownRun] \in Kept => detail'[shownRun] \in Kept
  PROVE  OwnRewind' /\ (rewind.phase # "idle" => rewind.step > 0)'
  BY DEF DetailInv, OwnRewind

(* Every step of the run page keeps the invariant.                         *)
LEMMA DetailStep ==
  ASSUME DetailInv, [DetailNext]_detailVars
  PROVE  DetailInv'
  <1> USE DEF DetailInv, DetailTypeOK, CacheState, Kept
  <1>1. ASSUME NEW r \in Runs, EnterRun(r)
        PROVE  DetailInv'
    <2>1. detail' \in [Runs -> CacheState] /\ reruns' \in [Runs -> CacheState]
      BY <1>1 DEF EnterRun, Watched
    <2>2. CASE shownRun = NoRun
      <3>1. rewind' \in RewindType /\ rewind'.phase = "idle" /\ selected' = 0 /\ carried' = FALSE
        BY <1>1, <2>2, IdleIsARewind DEF EnterRun
      <3> QED BY <1>1, <2>1, <3>1 DEF EnterRun, OwnRewind
    <2>3. CASE shownRun # NoRun
      <3>1. carried' = (rewind.phase # "idle") /\ UNCHANGED <<selected, rewind>>
        BY <1>1, <2>3 DEF EnterRun
      <3>2. OwnRewind'
        BY <3>1 DEF OwnRewind
      <3> QED BY <1>1, <2>1, <3>1, <3>2 DEF EnterRun
    <2> QED BY <2>2, <2>3
  <1>2. CASE LeaveRun
    BY <1>2, IdleIsARewind DEF LeaveRun, Watched, OwnRewind
  <1>3. ASSUME NEW r \in Runs, Prefetched(r)
        PROVE  DetailInv'
    BY <1>3, RewindStays DEF Prefetched
  <1>4. CASE DetailAnswers
    BY <1>4, RewindStays DEF DetailAnswers
  <1>5. CASE RerunsAnswer
    BY <1>5, RewindStays DEF RerunsAnswer
  <1>6. CASE RetryDetail
    BY <1>6, RewindStays DEF RetryDetail
  <1>7. CASE RetryReruns
    BY <1>7, RewindStays DEF RetryReruns
  <1>8. CASE DiffAnswers
    BY <1>8, RewindStays, PlayheadIsANumber, TreatedIsAStep DEF DiffAnswers
  <1>9. ASSUME NEW step \in 1..NSteps, SelectStep(step)
        PROVE  DetailInv'
    <2>1. step \in Nat
      BY DEF NSteps, HasSteps
    <2> QED BY <1>9, <2>1, RewindStays DEF SelectStep
  <1>10. ASSUME NEW delta \in {-PageStep, -1, 1, PageStep}, KeyMoves(delta)
         PROVE  DetailInv'
    <2>1. NSteps \in Nat /\ Playhead + delta \in Int
      BY PlayheadIsANumber DEF NSteps, HasSteps
    <2>2. selected' \in Nat
      BY <1>10, <2>1, ClampIsAStep DEF KeyMoves
    <2> QED BY <1>10, <2>2, RewindStays DEF KeyMoves
  <1>11. CASE StartRewind
    <2>1. /\ shownRun \in Runs /\ detail[shownRun] = "data" /\ reruns[shownRun] = "data"
          /\ Playhead \in 1..StepsOf[shownRun] /\ NSteps = StepsOf[shownRun]
          /\ TreatedAt(Playhead) = TreatedOf[shownRun][Playhead]
          /\ TreatedOf[shownRun][Playhead] # {}
      BY <1>11, TreatedIsAStep DEF StartRewind, Loaded, HasSteps, NSteps
    <2>2. PICK passed \in Passed :
            /\ passed = IF TRUE \in TreatedOf[shownRun][Playhead] THEN "yes" ELSE "no"
            /\ rewind' = Started(Playhead, passed)
      BY <1>11, <2>1 DEF StartRewind, Passed
    <2>3. rewind' \in RewindType
      <3>1. Playhead \in Nat /\ Playhead - 1 \in Nat /\ NSteps \in Nat
        BY <2>1
      <3> QED BY <2>2, <3>1 DEF Started, RewindType, Phase
    <2>4. OwnRewind'
      BY <1>11, <2>1, <2>2 DEF StartRewind, OwnRewind, Started
    <2>5. rewind'.step > 0
      BY <2>1, <2>2 DEF Started
    <2>6. UNCHANGED <<shownRun, detail, reruns, diffs, selected, reduced>> /\ carried' = FALSE
      BY <1>11 DEF StartRewind
    <2> QED BY <2>3, <2>4, <2>5, <2>6
  <1>12. CASE ResetRewind
    BY <1>12, IdleIsARewind DEF ResetRewind, OwnRewind
  <1>13. CASE Tick
    <2>1. /\ rewind \in RewindType /\ rewind.step > 0 /\ NSteps \in Nat
          /\ rewind.phase \in {"rewinding", "intervened", "replaying"}
      BY <1>13 DEF Tick, NSteps, HasSteps, RewindType, Phase
    <2>2. rewind' \in RewindType /\ rewind'.step = rewind.step /\ rewind'.passed = rewind.passed
      BY <1>13, <2>1, TickAdvances DEF Tick
    <2>3. OwnRewind'
      <3>1. CASE carried
        BY <1>13, <3>1 DEF Tick, OwnRewind
      <3>2. CASE ~carried
        <4>1. NSteps = StepsOf[shownRun]
          BY <1>13, <3>2 DEF Tick, OwnRewind, NSteps, HasSteps
        <4>2. /\ shownRun \in Runs /\ StepsOf[shownRun] \in Nat
              /\ rewind.step \in Nat /\ rewind.replayed \in Nat /\ rewind.banded \in Nat
          BY <2>1, <3>2 DEF OwnRewind, RewindType
        <4>3. rewind' = NextRewind(rewind, StepsOf[shownRun])
          BY <1>13, <4>1 DEF Tick
        <4> DEFINE n == StepsOf[shownRun]
        <4>4. \/ /\ rewind.phase = "rewinding" /\ rewind'.phase = "rewinding"
                 /\ rewind'.banded \in rewind.banded + 1..rewind.step - 2
                 /\ rewind'.replayed = rewind.replayed
              \/ /\ rewind.phase = "rewinding" /\ rewind'.phase = "intervened"
                 /\ rewind'.banded = rewind.step - 1
                 /\ rewind'.replayed = rewind.replayed
              \/ /\ rewind.phase # "rewinding" /\ rewind'.phase = "settled"
                 /\ rewind'.banded = rewind.banded
                 /\ rewind'.replayed = rewind.replayed /\ rewind.replayed >= n
              \/ /\ rewind.phase # "rewinding" /\ rewind'.phase = "replaying"
                 /\ rewind'.banded = rewind.banded
                 /\ rewind'.replayed = rewind.replayed + 1 /\ rewind.replayed < n
          BY <2>1, <4>2, <4>3, TickAdvances, ZenonT(40)
        <4>5. /\ rewind.step \in 1..n /\ rewind.replayed \in rewind.step..n
              /\ rewind.banded \in 0..rewind.step - 1
              /\ rewind.phase = "rewinding" => rewind.replayed = rewind.step
              /\ rewind.phase # "rewinding" => rewind.banded = rewind.step - 1
          BY <2>1, <3>2 DEF OwnRewind
        <4> HIDE DEF n
        <4>6. n \in Nat
          BY <4>2 DEF n
        <4>7. /\ rewind'.replayed \in rewind.step..n
              /\ rewind'.banded \in 0..rewind.step - 1
              /\ rewind'.phase = "rewinding" => rewind'.replayed = rewind.step
              /\ rewind'.phase # "rewinding" => rewind'.banded = rewind.step - 1
              /\ rewind'.phase = "settled" => rewind'.replayed = n
          <5>1. CASE rewind.phase = "rewinding"
            BY <4>2, <4>4, <4>5, <4>6, <5>1, SMTT(30)
          <5>2. CASE rewind.phase # "rewinding"
            BY <4>2, <4>4, <4>5, <4>6, <5>2
          <5> QED BY <5>1, <5>2
        <4> QED BY <1>13, <2>1, <2>2, <3>2, <4>7 DEF Tick, OwnRewind, n
      <3> QED BY <3>1, <3>2
    <2> QED BY <1>13, <2>1, <2>2, <2>3 DEF Tick
  <1>14. CASE DetailRefetched
    BY <1>14, RewindStays DEF DetailRefetched
  <1>15. CASE RerunsRefetched
    BY <1>15, RewindStays DEF RerunsRefetched
  <1>16. CASE UNCHANGED detailVars
    BY <1>16, RewindStays DEF detailVars
  <1> QED
    BY <1>1, <1>2, <1>3, <1>4, <1>5, <1>6, <1>7, <1>8, <1>9, <1>10, <1>11, <1>12, <1>13, <1>14,
       <1>15, <1>16
    DEF DetailNext, DetailInside, DetailRefetches
-----------------------------------------------------------------------------
(* What is drawn of a rewind.                                              *)
LEMMA OwnIsWithinTheTape ==
  ASSUME DetailInv, Own
  PROVE  /\ NSteps = StepsOf[shownRun] /\ NSteps \in Nat /\ shownRun \in Runs
         /\ rewind.step \in 1..NSteps /\ rewind.replayed \in rewind.step..NSteps
         /\ rewind.banded \in 0..rewind.step - 1
         /\ rewind.phase = "rewinding" => rewind.replayed = rewind.step
         /\ rewind.phase # "rewinding" => rewind.banded = rewind.step - 1
         /\ rewind.phase = "settled" => rewind.replayed = NSteps
         /\ TreatedOf[shownRun][rewind.step] # {}
         /\ TreatedOf[shownRun][rewind.step] \subseteq BOOLEAN
         /\ rewind.passed = IF TRUE \in TreatedOf[shownRun][rewind.step] THEN "yes" ELSE "no"
  <1>1. shownRun # NoRun /\ HasSteps
    BY DEF Own, Loaded, HasSteps, Kept
  <1>2. shownRun \in Runs /\ NSteps = StepsOf[shownRun]
    BY <1>1 DEF DetailInv, DetailTypeOK, NSteps
  <1>3. rewind.step \in 1..StepsOf[shownRun]
    BY <1>1 DEF DetailInv, OwnRewind, Own
  <1>4. TreatedOf[shownRun][rewind.step] \subseteq BOOLEAN
    BY <1>2, <1>3
  <1> QED BY <1>1, <1>2, <1>4 DEF DetailInv, OwnRewind, Own

(* Where a rewind rests is where reduced motion would have put it at       *)
(* once.                                                                   *)
LEMMA SettlesLemma ==
  ASSUME DetailInv
  PROVE  SettlesAsReduced
  BY OwnIsWithinTheTape DEF SettlesAsReduced

(* The last cell is past the step that was rewound to, or it is that step. *)
LEMMA GuessLemma ==
  ASSUME DetailInv
  PROVE  NeverGuessed
  <1> SUFFICES ASSUME Own
               PROVE  /\ RewoundStates[NSteps] \in {"passed", "failed"} =>
                            rewind.phase = "settled" /\ rewind.passed \in {"yes", "no"}
                      /\ RewoundStates[NSteps] = "passed" => rewind.passed = "yes"
                      /\ RewoundStates[NSteps] = "failed" => rewind.passed = "no"
    BY OwnIsWithinTheTape DEF NeverGuessed
  <1>1. NSteps \in Nat /\ rewind.step \in 1..NSteps
    BY OwnIsWithinTheTape
  <1>2. RewoundStates[NSteps] = RewoundCell(NSteps, NSteps)
    BY <1>1 DEF RewoundStates
  <1>3. ~(NSteps < rewind.step)
    BY <1>1
  <1> QED BY <1>1, <1>2, <1>3, OwnIsWithinTheTape DEF RewoundCell, OutcomeState

(* The cells before, at and after the step rewound to, through one tick.   *)
LEMMA ForwardLemma ==
  ASSUME DetailInv, Tick, Own, NEW k \in 1..NSteps
  PROVE  Rank[RewoundStates'[k]] >= Rank[RewoundStates[k]]
  <1>0. PICK n \in Nat, s \in Nat : n = NSteps /\ s = rewind.step
    BY OwnIsWithinTheTape
  <1>1. /\ n \in Nat /\ s \in 1..n /\ k \in 1..n
        /\ rewind.replayed \in s..n /\ rewind.banded \in 0..s - 1
        /\ rewind.phase = "rewinding" => rewind.replayed = s
        /\ rewind.phase # "rewinding" => rewind.banded = s - 1
        /\ rewind.passed \in {"yes", "no"}
    BY <1>0, OwnIsWithinTheTape
  <1>2. /\ rewind \in RewindType /\ rewind.step > 0
        /\ rewind.phase \in {"rewinding", "intervened", "replaying"}
        /\ rewind' = NextRewind(rewind, n) /\ NSteps' = n
    BY <1>0 DEF DetailInv, DetailTypeOK, Tick, RewindType, Phase, NSteps, HasSteps
  <1>3. /\ rewind'.step = s /\ rewind'.passed = rewind.passed
        /\ \/ /\ rewind.phase = "rewinding" /\ rewind'.phase = "rewinding"
              /\ rewind'.banded \in rewind.banded + 1..s - 2
              /\ rewind'.replayed = rewind.replayed
           \/ /\ rewind.phase = "rewinding" /\ rewind'.phase = "intervened"
              /\ rewind'.banded = s - 1
              /\ rewind'.replayed = rewind.replayed
           \/ /\ rewind.phase # "rewinding" /\ rewind'.phase = "settled"
              /\ rewind'.banded = rewind.banded
              /\ rewind'.replayed = rewind.replayed /\ rewind.replayed >= n
           \/ /\ rewind.phase # "rewinding" /\ rewind'.phase = "replaying"
              /\ rewind'.banded = rewind.banded
              /\ rewind'.replayed = rewind.replayed + 1 /\ rewind.replayed < n
    BY <1>0, <1>1, <1>2, TickAdvances, ZenonT(40)
  <1>4. RewoundStates[k] = RewoundCell(k, n) /\ RewoundStates'[k] = RewoundCell(k, n)'
    BY <1>0, <1>1, <1>2 DEF RewoundStates
  <1>5. /\ s \in Nat /\ n \in Nat /\ k \in Nat
        /\ rewind.replayed \in Nat /\ rewind.banded \in Nat
        /\ rewind'.replayed \in Nat /\ rewind'.banded \in Nat
    BY <1>1, <1>3
  <1>6. CASE k < s
    <2>1. /\ RewoundCell(k, n) = IF k <= Banded THEN "tape" ELSE "ran"
          /\ RewoundCell(k, n)' = IF k <= Banded' THEN "tape" ELSE "ran"
      BY <1>0, <1>3, <1>6 DEF RewoundCell
    <2>2. Banded' >= Banded /\ Banded \in Int /\ Banded' \in Int
      BY <1>0, <1>1, <1>3, <1>5 DEF Banded
    <2> QED BY <1>4, <1>5, <2>1, <2>2 DEF Rank
  <1>7. CASE k = s
    <2>1. /\ RewoundCell(k, n) = IF rewind.phase = "rewinding" THEN "ran" ELSE "blamed"
          /\ RewoundCell(k, n)' = IF rewind'.phase = "rewinding" THEN "ran" ELSE "blamed"
      BY <1>0, <1>3, <1>5, <1>7 DEF RewoundCell
    <2> QED BY <1>3, <1>4, <2>1 DEF Rank
  <1>8. CASE k > s
    <2>1. ~(k < rewind.step) /\ k # rewind.step /\ ~(k < rewind'.step) /\ k # rewind'.step
          /\ k > rewind.step /\ k > rewind'.step
      BY <1>0, <1>3, <1>5, <1>8
    <2>2. RewoundCell(k, n) =
            CASE rewind.phase = "replaying" /\ k = rewind.replayed + 1 -> "live"
              [] k > rewind.replayed -> "pending"
              [] k = n /\ rewind.phase = "settled" -> OutcomeState(rewind.passed)
              [] OTHER -> "ran"
      BY <2>1 DEF RewoundCell
    <2>3. RewoundCell(k, n)' =
            CASE rewind'.phase = "replaying" /\ k = rewind'.replayed + 1 -> "live"
              [] k > rewind'.replayed -> "pending"
              [] k = n /\ rewind'.phase = "settled" -> OutcomeState(rewind'.passed)
              [] OTHER -> "ran"
      BY <2>1 DEF RewoundCell
    <2>4. CASE rewind.phase = "rewinding"
      BY <1>1, <1>3, <1>4, <1>5, <1>8, <2>2, <2>3, <2>4, SMTT(30) DEF Rank, OutcomeState
    <2>5. CASE rewind'.phase = "settled"
      BY <1>1, <1>3, <1>4, <1>5, <1>8, <2>2, <2>3, <2>5, SMTT(30) DEF Rank, OutcomeState
    <2>6. CASE rewind'.phase = "replaying"
      BY <1>1, <1>2, <1>3, <1>4, <1>5, <1>8, <2>2, <2>3, <2>6, SMTT(30) DEF Rank, OutcomeState
    <2> QED BY <1>3, <2>4, <2>5, <2>6
  <1> QED BY <1>5, <1>6, <1>7, <1>8

-----------------------------------------------------------------------------
(***************************************************************************)
(* The run list.                                                           *)
(***************************************************************************)
ListType == [status : {"none", "pending", "ok", "missing", "error"}, pages : Nat,
             fetching : {"no", "first", "next", "all"}, of : Search]

(* What may be cached under a search: its own pages, and a fetch that can  *)
(* only bring one of them.                                                 *)
Sound(l, s) ==
  /\ l \in ListType
  /\ l.pages > 0 \/ l.status = "error" => l.of = s
  /\ l.pages <= PagesOf[s]
  /\ l.fetching = "first" => l.pages = 0 /\ l.of = s
  /\ l.fetching = "next" => l.pages > 0 /\ l.pages < PagesOf[s]
  /\ l.fetching = "all" => l.pages > 0

ListInv ==
  /\ listed \in BOOLEAN /\ address \in Search /\ shown \in Search
  /\ draft \in Texts \cup {Blank}
  /\ lists \in [Search -> ListType]
  /\ \A s \in Search : Sound(lists[s], s)

USE ListAssumption

-----------------------------------------------------------------------------
(* The pure parts.                                                         *)
LEMMA FreshIsSound ==
  ASSUME NEW s \in Search
  PROVE  Fresh \in ListType /\ Sound(Fresh, s)
  <1>1. Unfiltered \in Search
    BY DEF Unfiltered, Search
  <1>2. Fresh \in ListType
    BY <1>1 DEF Fresh, ListType
  <1> QED BY <1>2 DEF Fresh, Sound

(* A list whose fetch is aborted keeps the pages it has.                   *)
LEMMA AbortedIsSound ==
  ASSUME NEW s \in Search, NEW l \in ListType, Sound(l, s)
  PROVE  Aborted(l) \in ListType /\ Sound(Aborted(l), s)
  BY DEF Aborted, Sound, ListType

(* A list that is looked at again, fetched anew or not, keeps pages of     *)
(* its own search.                                                         *)
LEMMA WatchedIsSound ==
  ASSUME NEW s \in Search, NEW l \in ListType, Sound(l, s), NEW w \in Watching(l, s)
  PROVE  w \in ListType /\ Sound(w, s)
  <1>1. CASE l.pages = 0
    BY <1>1 DEF Watching, Sound, ListType
  <1>2. CASE l.pages # 0
    BY <1>2 DEF Watching, Sound, ListType
  <1> QED BY <1>1, <1>2

(* Changing the text or the choice of a search gives a search.             *)
LEMMA SearchesAreSearches ==
  /\ Unfiltered \in Search
  /\ \A s \in Search : s.q \in Texts \cup {Blank} /\ s.choice \in Choices \cup {NoChoice}
  /\ \A s \in Search, q \in Texts \cup {Blank} : [s EXCEPT !.q = q] \in Search
  /\ \A s \in Search, c \in Choices \cup {NoChoice} : [s EXCEPT !.choice = c] \in Search
  BY DEF Unfiltered, Search

-----------------------------------------------------------------------------
(* Before the list is opened nothing was fetched and nothing is in the     *)
(* address.                                                                *)
LEMMA ListStart == ListInit => ListInv
  <1> SUFFICES ASSUME ListInit PROVE ListInv
    OBVIOUS
  <1>1. \A s \in Search : lists[s] = Fresh /\ Fresh \in ListType /\ Sound(Fresh, s)
    BY FreshIsSound DEF ListInit
  <1> QED BY <1>1, SearchesAreSearches DEF ListInit, ListInv

(* A search comes to be watched: its list is fetched, the others are let   *)
(* go of.                                                                  *)
LEMMA WatchedFromIsSound ==
  ASSUME ListInv, NEW s \in Search, WatchedFrom(s)
  PROVE  /\ lists' \in [Search -> ListType]
         /\ \A x \in Search : Sound(lists'[x], x)
  <1>1. PICK l \in Watching(Aborted(lists[s]), s) :
          lists' = [k \in Search |-> IF k = s THEN l ELSE Aborted(lists[k])]
    BY DEF WatchedFrom, Key
  <1>2. \A x \in Search : Aborted(lists[x]) \in ListType /\ Sound(Aborted(lists[x]), x)
    BY AbortedIsSound DEF ListInv
  <1>3. l \in ListType /\ Sound(l, s)
    BY <1>2, WatchedIsSound
  <1>4. \A x \in Search : lists'[x] = IF x = s THEN l ELSE Aborted(lists[x])
    BY <1>1
  <1>5. lists' \in [Search -> ListType]
    BY <1>1, <1>2, <1>3
  <1> QED BY <1>2, <1>3, <1>4, <1>5

(* The list that is shown is replaced by a sound one.                      *)
LEMMA PutIsSound ==
  ASSUME ListInv, NEW l \in ListType, Sound(l, shown), Put(l)
  PROVE  ListInv'
  <1>1. \A x \in Search : lists'[x] = IF x = shown THEN l ELSE lists[x]
    BY DEF ListInv, Put, Key
  <1>2. lists' \in [Search -> ListType]
    BY DEF ListInv, Put, Key
  <1>3. draft' \in Texts \cup {Blank}
    BY SearchesAreSearches DEF ListInv, Put
  <1>4. UNCHANGED <<listed, address, shown>>
    BY DEF Put
  <1>5. \A x \in Search : Sound(lists'[x], x)
    BY <1>1 DEF ListInv
  <1> QED BY <1>2, <1>3, <1>4, <1>5 DEF ListInv

(* The list that is drawn is the one of the search that is shown, and is   *)
(* sound.                                                                  *)
LEMMA ShownIsSound ==
  ASSUME ListInv
  PROVE  List = lists[shown] /\ List \in ListType /\ Sound(List, shown)
  BY DEF ListInv, List, Key

(* Every keystroke, choice, answer, error and refetch of the run list      *)
(* keeps the invariant.                                                    *)
LEMMA ListStep ==
  ASSUME ListInv, [ListNext]_listVars
  PROVE  ListInv'
  <1> USE ShownIsSound
  <1>1. CASE EnterList
    <2>1. PICK s \in Search : address' = s /\ shown' = s /\ draft' = s.q /\ WatchedFrom(s)
      BY <1>1 DEF EnterList
    <2>2. listed' \in BOOLEAN
      BY <1>1 DEF EnterList
    <2> QED BY <2>1, <2>2, WatchedFromIsSound, SearchesAreSearches DEF ListInv
  <1>2. CASE LeaveList
    <2>0. \A s \in Search : /\ Aborted(lists[s]) \in ListType /\ Sound(Aborted(lists[s]), s)
                           /\ Fresh \in ListType /\ Sound(Fresh, s)
      BY AbortedIsSound, FreshIsSound DEF ListInv
    <2>1. lists' \in [Search -> ListType] /\ \A s \in Search : Sound(lists'[s], s)
      <3>1. CASE lists' = [k \in Search |-> Aborted(lists[k])]
        BY <2>0, <3>1
      <3>2. CASE lists' = [k \in Search |-> Fresh]
        BY <2>0, <3>2
      <3> QED BY <1>2, <3>1, <3>2 DEF LeaveList, Outlives
    <2> QED BY <1>2, <2>1, SearchesAreSearches DEF LeaveList, ListInv
  <1>3. ASSUME NEW text \in Texts \cup {Blank}, Type(text)
        PROVE  ListInv'
    BY <1>3 DEF Type, ListInv
  <1>4. ASSUME NEW s \in Search, Apply(s)
        PROVE  ListInv'
    BY <1>4 DEF Apply, ListInv
  <1>5. CASE SearchFires \/ ClearFilters \/ \E choice \in Choices \cup {NoChoice} : Choose(choice)
    <2>1. \E s \in Search : Apply(s)
      BY <1>5, SearchesAreSearches DEF SearchFires, ClearFilters, Choose, ListInv
    <2> QED BY <1>4, <2>1
  <1>6. CASE Commit
    <2>1. /\ shown' = address /\ address' = address /\ listed' = listed
          /\ WatchedFrom(address) /\ draft' \in {address.q, draft}
      BY <1>6 DEF Commit
    <2> QED BY <2>1, WatchedFromIsSound, SearchesAreSearches DEF ListInv
  <1>7. CASE FetchNext \/ LoadMore
    <2>1. HasNext /\ Put([List EXCEPT !.fetching = "next"])
      BY <1>7 DEF FetchNext, FillsItself, LoadMore
    <2>2. /\ [List EXCEPT !.fetching = "next"] \in ListType
          /\ Sound([List EXCEPT !.fetching = "next"], shown)
      BY <2>1 DEF HasNext, Sound, ListType
    <2> QED BY <2>1, <2>2, PutIsSound
  <1>8. CASE Retry
    <2> DEFINE l == [List EXCEPT !.fetching = IF List.pages = 0 THEN "first" ELSE "all",
                                 !.status = IF List.pages = 0 THEN "pending" ELSE @]
    <2>1. List.status = "error" /\ Put(l)
      BY <1>8 DEF Retry, Draws
    <2>2. CASE List.pages = 0
      <3>1. l = [List EXCEPT !.fetching = "first", !.status = "pending"]
        BY <2>2 DEF ListType
      <3>2. l \in ListType /\ Sound(l, shown)
        BY <2>1, <2>2, <3>1 DEF Sound, ListType
      <3> QED BY <2>1, <3>2, PutIsSound
    <2>3. CASE List.pages # 0
      <3>1. l = [List EXCEPT !.fetching = "all"]
        BY <2>3 DEF ListType
      <3>2. l \in ListType /\ Sound(l, shown)
        BY <2>1, <2>3, <3>1, SMTT(30) DEF Sound, ListType
      <3> QED BY <2>1, <3>2, PutIsSound
    <2> QED BY <2>2, <2>3
  <1>9. CASE ListAnswers
    <2> DEFINE ok == [List EXCEPT !.status = "ok", !.fetching = "no",
                                  !.pages = IF List.fetching = "all" THEN @ ELSE @ + 1]
               gone == [List EXCEPT !.status = "missing", !.fetching = "no", !.pages = 1]
    <2>1. List.fetching \in {"first", "next", "all"} /\ PagesOf[shown] \in Nat \ {0}
      BY <1>9 DEF ListAnswers, ListInv, ListType
    <2>2. ok \in ListType /\ Sound(ok, shown)
      <3>1. CASE List.fetching = "all"
        <4>1. ok = [List EXCEPT !.status = "ok", !.fetching = "no"]
          BY <3>1 DEF ListType
        <4> QED BY <3>1, <4>1 DEF Sound, ListType
      <3>2. CASE List.fetching # "all"
        <4>1. ok = [List EXCEPT !.status = "ok", !.fetching = "no", !.pages = List.pages + 1]
          BY <3>2 DEF ListType
        <4>2. List.pages + 1 \in Nat
          BY DEF ListType
        <4>3. ok \in ListType
          BY <4>1, <4>2 DEF ListType
        <4>4. /\ ok.pages = List.pages + 1 /\ ok.of = List.of /\ ok.fetching = "no"
              /\ ok.status = "ok"
          BY <4>1 DEF ListType
        <4>5. List.of = shown /\ List.pages + 1 <= PagesOf[shown]
          BY <2>1, <3>2 DEF Sound, ListType
        <4> HIDE DEF ok
        <4> QED BY <4>3, <4>4, <4>5 DEF Sound
      <3> QED BY <3>1, <3>2
    <2>3. List.fetching # "next" => gone \in ListType /\ Sound(gone, shown)
      <3>1. gone \in ListType
        BY DEF ListType
      <3>2. /\ gone.pages = 1 /\ gone.of = List.of /\ gone.fetching = "no"
            /\ gone.status = "missing"
        BY DEF ListType
      <3>3. List.fetching # "next" => List.of = shown
        BY <2>1 DEF Sound, ListType
      <3>4. 1 <= PagesOf[shown]
        BY <2>1
      <3> HIDE DEF gone
      <3> QED BY <3>1, <3>2, <3>3, <3>4 DEF Sound
    <2> QED BY <1>9, <2>2, <2>3, PutIsSound DEF ListAnswers
  <1>10. CASE ListFails
    <2> DEFINE l == [List EXCEPT !.status = "error", !.fetching = "no"]
    <2>1. List.fetching # "no" /\ Put(l)
      BY <1>10 DEF ListFails
    <2>2. l \in ListType /\ Sound(l, shown)
      BY <2>1 DEF Sound, ListType
    <2> QED BY <2>1, <2>2, PutIsSound
  <1>11. CASE UNCHANGED listVars
    BY <1>11 DEF listVars, ListInv
  <1> QED
    BY <1>1, <1>2, <1>3, <1>5, <1>6, <1>7, <1>8, <1>9, <1>10, <1>11 DEF ListNext, ListInside

(* Sound lists have only rows of their own search.                         *)
LEMMA RowsLemma ==
  ASSUME ListInv
  PROVE  RowsAreTheFilters
  BY ShownIsSound DEF RowsAreTheFilters, Sound, ListType

(***************************************************************************)
(* The dashboard: each of its steps is a step, or no step, of each page.   *)
(***************************************************************************)

DashInv == LiveInv /\ DetailInv /\ ListInv

(* A step of the dashboard is, for the Live page alone, one of its own     *)
(* steps or a stutter.                                                     *)
LEMMA DashStepIsLive ==
  ASSUME [DashNext]_dashVars
  PROVE  [LiveNext]_liveVars
  BY DEF DashNext, dashVars, OpenLive, OpenRuns, OpenOther, OpenRun, HoverRow, LeaveLive, LiveNext

(* A step of the dashboard is, for the run page alone, one of its own      *)
(* steps or a stutter.                                                     *)
LEMMA DashStepIsDetail ==
  ASSUME [DashNext]_dashVars
  PROVE  [DetailNext]_detailVars
  BY DEF DashNext, dashVars, OpenLive, OpenRuns, OpenOther, OpenRun, HoverRow, LeaveDetail,
         DetailNext

(* A step of the dashboard is, for the run list alone, one of its own      *)
(* steps or a stutter.                                                     *)
LEMMA DashStepIsList ==
  ASSUME [DashNext]_dashVars
  PROVE  [ListNext]_listVars
  BY DEF DashNext, dashVars, OpenLive, OpenRuns, OpenOther, OpenRun, HoverRow, LeaveRuns, ListNext

(* The three invariants are one of the dashboard.                          *)
THEOREM DashInvariant == DashSpec => []DashInv
  <1>1. DashInit => DashInv
    BY LiveStart, DetailStart, ListStart DEF DashInit, DashInv
  <1>2. DashInv /\ [DashNext]_dashVars => DashInv'
    BY DashStepIsLive, DashStepIsDetail, DashStepIsList, LiveStep, DetailStep, ListStep
    DEF DashInv
  <1> QED BY <1>1, <1>2, PTL DEF DashSpec

(* Every variable of the three pages keeps its type.                       *)
THEOREM DashTypes == DashSpec => [](LiveTypeOK /\ DetailTypeOK /\ ListTypeOK)
  <1>1. DashInv => LiveTypeOK /\ DetailTypeOK /\ ListTypeOK
    BY DEF DashInv, LiveInv, DetailInv, ListInv, ListTypeOK, ListType
  <1> QED BY <1>1, DashInvariant, PTL

(* useLiveStream.ts: one socket or one timer for a page that is looked at, *)
(* whatever errors, timers, retries and hidings come between a state       *)
(* change and its effects; none for a page that is not.                    *)
THEOREM DashListens == DashSpec => []ExactlyOneListens
  <1>1. DashInv => ExactlyOneListens
    BY WiredListens DEF DashInv
  <1> QED BY <1>1, DashInvariant, PTL

(* useLiveStream.ts: "live" stands beside a held connection, a frame and   *)
(* no failure.                                                             *)
THEOREM DashLive == DashSpec => []LiveIsEarned
  <1>1. DashInv => LiveIsEarned
    BY DEF DashInv, LiveInv
  <1> QED BY <1>1, DashInvariant, PTL

(* RunsPage.tsx: the rows under a set of filters were asked for with it,   *)
(* and none of their pages twice.                                          *)
THEOREM DashRows == DashSpec => []RowsAreTheFilters
  <1>1. DashInv => RowsAreTheFilters
    BY RowsLemma DEF DashInv
  <1> QED BY <1>1, DashInvariant, PTL

(* useRewindSequence.ts: the animation ends where reduced motion starts,   *)
(* and its band stays short of the step rewound to.                        *)
THEOREM DashSettles == DashSpec => []SettlesAsReduced
  <1>1. DashInv => SettlesAsReduced
    BY SettlesLemma DEF DashInv
  <1> QED BY <1>1, DashInvariant, PTL

(* tapeState.ts: a verdict is drawn once the rewind settled, and is one a  *)
(* treated rerun of that step reached.                                     *)
THEOREM DashNeverGuessed == DashSpec => []NeverGuessed
  <1>1. DashInv => NeverGuessed
    BY GuessLemma DEF DashInv
  <1> QED BY <1>1, DashInvariant, PTL

(* tapeState.ts: a tick never takes a cell of the tape back.               *)
THEOREM DashTapeMovesForward == DashSpec => TapeMovesForward
  <1>1. DashInv /\ [DashNext]_dashVars =>
          [Tick /\ Own =>
             \A k \in 1..NSteps : Rank[RewoundStates'[k]] >= Rank[RewoundStates[k]]]_detailVars
    BY ForwardLemma DEF DashInv
  <1> QED BY <1>1, DashInvariant, PTL DEF DashSpec, TapeMovesForward

=============================================================================

----------------------------- MODULE LiveStream -----------------------------
(***************************************************************************)
(* The Live page of the dashboard (src/web/src/features/live): the hook    *)
(* that keeps one EventSource open while the page is looked at, the first  *)
(* snapshot it fetches beside it, and what the page draws from the two.    *)
(*                                                                         *)
(* A React component runs in three kinds of step, and each is an action of *)
(* its own: an event handler (a frame, an error, a timer, a click, a       *)
(* visibility change) sets state; the effects run later, in a task of      *)
(* their own, after the state they depend on was committed (RunEffects).   *)
(* So a second event may come between a state change and its effects.      *)
(*                                                                         *)
(* Abstracted: the numbers in a frame, the event feed, the length of a     *)
(* backoff, the ages.                                                      *)
(***************************************************************************)
EXTENDS Naturals, FiniteSets

CONSTANTS
  Sockets,       \* EventSource objects
  Timers,        \* retry timers
  None,
  OfflineAfter,  \* OFFLINE_AFTER_ATTEMPTS
  MaxRetries     \* MAX_RETRIES of the query client

ASSUME LiveAssumption ==
  /\ None \notin Sockets /\ None \notin Timers
  /\ OfflineAfter \in Nat \ {0} /\ MaxRetries \in Nat

VARIABLES
  tab,        \* document.visibilityState
  up,         \* the server can be reached
  tracking,   \* the server has a ledger to answer from
  mounted,    \* the page is on screen
  listening,  \* the visibilitychange listener is registered
  hidden,     \* state: what the hook last read of the tab
  bumped,     \* state: the generation moved since the open effect ran
  applied,    \* what the open effect last ran with
  socket,     \* each EventSource: "shut", "open", or "broken" with its error event still to come
  source,     \* the EventSource the open effect closes over
  timers,     \* retry timers that will fire
  timerRef,   \* the retry timer the hook can still cancel
  attempt,    \* consecutive failures, counted up to OfflineAfter
  state,      \* state: socketState
  frame,      \* state: a snapshot came over the stream since the page was mounted
  query,      \* the cached first snapshot
  failures,   \* failed tries of the query in flight
      \* the sockets that delivered a snapshot since they were opened
  heard       \* the stream's last answer, whoever listens to it

env    == <<tab, up, tracking>>
wires  == <<socket, source, timers, timerRef>>
hook   == <<hidden, bumped, attempt, state>>
cache  == <<query, failures>>
liveVars == <<env, mounted, listening, applied, wires, hook, frame, cache, heard>>

SocketState == {"connecting", "live", "reconnecting", "offline"}
QueryState  == {"idle", "pending", "data", "missing", "error"}
Answer      == {"none", "snapshot", "not_available"}

(* Sockets the browser still holds, whether or not it knows they are dead. *)
Held == {s \in Sockets : socket[s] # "shut"}

(* The effects have caught up with the state they depend on. *)
Settled == ~bumped /\ applied = IF hidden THEN "hidden" ELSE "visible"

(* Derived, not stored: a hidden tab is paused whatever the socket last was. *)
Connection == IF hidden THEN "paused" ELSE state

(* What the page draws. *)
HasSnapshot == frame \/ query = "data"
Drawn ==
  CASE ~mounted                             -> "nothing"
    [] ~HasSnapshot /\ query = "missing"    -> "reason"
    [] ~HasSnapshot /\ query = "error"      -> "error"
    [] ~HasSnapshot /\ query \notin {"missing", "error"} -> "loading"
    [] HasSnapshot                          -> "body"

-----------------------------------------------------------------------------
LiveInit ==
  /\ tab \in {"visible", "hidden"} /\ up \in BOOLEAN /\ tracking \in BOOLEAN
  /\ mounted = FALSE /\ listening = FALSE /\ applied = "never"
  /\ hidden = FALSE /\ bumped = FALSE /\ attempt = 0 /\ state = "connecting"
  /\ socket = [s \in Sockets |-> "shut"] /\ source = None
  /\ timers = {} /\ timerRef = None
  /\ frame = FALSE /\ heard = "none"
  /\ query = "idle" /\ failures = 0

(***************************************************************************)
(* The server and the browser.                                             *)
(***************************************************************************)
(* A connection that cannot be reached any more is broken at once; the     *)
(* page hears of it later.                                                 *)
ServerStops ==
  /\ up /\ up' = FALSE
  /\ socket' = [s \in Sockets |-> IF socket[s] = "open" THEN "broken" ELSE socket[s]]
  /\ UNCHANGED <<tab, tracking, mounted, listening, applied, source, timers, timerRef,
                 hook, frame, cache, heard>>

ServerStarts ==
  /\ ~up /\ up' = TRUE
  /\ UNCHANGED <<tab, tracking, mounted, listening, applied, wires, hook, frame, cache, heard>>

(* The ledger file appears with the first recorded call, and goes when     *)
(* runs/ is cleared.                                                       *)
LedgerChanges ==
  /\ tracking' = ~tracking
  /\ UNCHANGED <<tab, up, mounted, listening, applied, wires, hook, frame, cache, heard>>

(* Mutant: coming back keeps the state of the old socket. *)
TabChangesBugKeepState ==
  /\ tab' = IF tab = "visible" THEN "hidden" ELSE "visible"
  /\ hidden' = IF listening THEN tab' = "hidden" ELSE hidden
  /\ UNCHANGED <<up, tracking, mounted, listening, applied, wires, bumped, attempt, state, frame,
                 cache, heard>>

(* sync: only a registered listener hears the tab change. *)
TabChanges ==
  /\ tab' = IF tab = "visible" THEN "hidden" ELSE "visible"
  /\ IF listening
       THEN /\ hidden' = (tab' = "hidden")
            /\ IF tab' = "visible"
                 THEN attempt' = 0 /\ state' = "connecting"
                 ELSE UNCHANGED <<attempt, state>>
       ELSE UNCHANGED <<hidden, attempt, state>>
  /\ UNCHANGED <<up, tracking, mounted, listening, applied, wires, bumped, frame, cache, heard>>

(***************************************************************************)
(* The page is mounted and unmounted; the query cache outlives it.         *)
(***************************************************************************)
(* The cached snapshot is never stale; a query without data is fetched.    *)
Mount ==
  /\ ~mounted /\ mounted' = TRUE
  /\ hidden' = (tab = "hidden") /\ bumped' = FALSE /\ attempt' = 0 /\ state' = "connecting"
  /\ applied' = "never"
  /\ frame' = FALSE /\ heard' = "none"
  /\ IF query \in {"data", "missing"}
       THEN UNCHANGED cache
       ELSE query' = "pending" /\ failures' = 0
  /\ UNCHANGED <<env, listening, wires>>

(* Cleanup of both effects; a fetch nobody watches any more is aborted and *)
(* leaves the query without an answer. The state of the component is gone. *)
Unmount ==
  /\ mounted /\ mounted' = FALSE
  /\ listening' = FALSE /\ applied' = "never"
  /\ timers' = timers \ {timerRef} /\ timerRef' = None
  /\ socket' = [s \in Sockets |-> IF s = source THEN "shut" ELSE socket[s]]
  /\ source' = None
  /\ hidden' = FALSE /\ bumped' = FALSE /\ attempt' = 0 /\ state' = "connecting"
  /\ frame' = FALSE /\ heard' = "none"
  /\ query' = IF query \in {"data", "missing"} THEN query ELSE "idle"
  /\ failures' = 0
  /\ UNCHANGED env

(***************************************************************************)
(* The effects: cleanup of the last run, then, unless the tab is hidden,   *)
(* one new EventSource. The first run also registers the listener.         *)
(***************************************************************************)
(* Mutant: the cleanup forgets the pending retry. *)
CleanedTimersBugKept == timers

CleanedTimers == timers \ {timerRef}
Cleaned == [s \in Sockets |-> IF s = source THEN "shut" ELSE socket[s]]

RunEffects ==
  /\ mounted /\ ~Settled
  /\ listening' = TRUE /\ bumped' = FALSE
  /\ applied' = IF hidden THEN "hidden" ELSE "visible"
  /\ timers' = CleanedTimers /\ timerRef' = None
  /\ \/ /\ hidden
        /\ socket' = Cleaned /\ source' = None
     \/ /\ ~hidden
        /\ \E s \in Sockets :
             /\ Cleaned[s] = "shut"
             /\ socket' = [Cleaned EXCEPT ![s] = IF up THEN "open" ELSE "broken"]
             /\ source' = s
  /\ UNCHANGED <<env, mounted, hidden, attempt, state, frame, cache, heard>>

(***************************************************************************)
(* What the stream brings. A shut EventSource delivers nothing.            *)
(***************************************************************************)
(* handleSnapshot *)
SnapshotArrives(s) ==
  /\ socket[s] = "open" /\ tracking
  /\ attempt' = 0 /\ state' = "live" /\ frame' = TRUE
  /\ heard' = "snapshot"
  /\ UNCHANGED <<env, mounted, listening, applied, socket, source, timers, timerRef, hidden,
                 bumped, cache>>

(* The server names the event "not_available"; the hook listens to         *)
(* "snapshot" and "error" only, so notAvailableReason is never set.        *)
NotAvailableArrives(s) ==
  /\ socket[s] = "open" /\ ~tracking
  /\ heard' = "not_available"
  /\ UNCHANGED <<env, mounted, listening, applied, wires, hook, frame, cache>>

(* handleError *)
ErrorArrives(s) ==
  /\ socket[s] = "broken"
  /\ socket' = [socket EXCEPT ![s] = "shut"]
  /\ attempt' = IF attempt < OfflineAfter THEN attempt + 1 ELSE attempt
  /\ state' = IF attempt + 1 >= OfflineAfter THEN "offline" ELSE "reconnecting"
  /\ \E t \in Timers \ timers : timers' = timers \cup {t} /\ timerRef' = t
  /\ UNCHANGED <<env, mounted, listening, applied, source, hidden, bumped, frame, cache, heard>>

(* Mutant: the timer fires without asking for a new connection. *)
TimerFiresBugNoBump(t) ==
  /\ t \in timers
  /\ timers' = timers \ {t} /\ timerRef' = None
  /\ UNCHANGED <<env, mounted, listening, applied, socket, source, hook, frame, cache, heard>>

TimerFires(t) ==
  /\ t \in timers
  /\ timers' = timers \ {t} /\ timerRef' = None /\ bumped' = TRUE
  /\ UNCHANGED <<env, mounted, listening, applied, socket, source, hidden, attempt,
                 state, frame, cache, heard>>

(***************************************************************************)
(* The two Retry buttons.                                                  *)
(***************************************************************************)
(* retryNow *)
RetryNow ==
  /\ timers' = timers \ {timerRef} /\ timerRef' = None
  /\ attempt' = 0 /\ state' = "connecting" /\ bumped' = TRUE

(* LiveStatus shows its button beside a drawn snapshot. *)
RetryFromStatus ==
  /\ mounted /\ Drawn = "body" /\ Connection \in {"reconnecting", "offline"}
  /\ RetryNow
  /\ UNCHANGED <<env, mounted, listening, applied, socket, source, hidden, frame, cache,
                 heard>>

(* ErrorState of the page asks for the snapshot again as well. *)
RetryFromError ==
  /\ mounted /\ Drawn = "error"
  /\ RetryNow
  /\ query' = "pending" /\ failures' = 0
  /\ UNCHANGED <<env, mounted, listening, applied, socket, source, hidden, frame, heard>>

(***************************************************************************)
(* The first snapshot: a GET that is tried again MaxRetries times.         *)
(***************************************************************************)
QueryAnswers ==
  /\ query = "pending" /\ up
  /\ query' = IF tracking THEN "data" ELSE "missing"
  /\ failures' = 0
  /\ UNCHANGED <<env, mounted, listening, applied, wires, hook, frame, heard>>

QueryFails ==
  /\ query = "pending" /\ ~up
  /\ IF failures < MaxRetries
       THEN failures' = failures + 1 /\ UNCHANGED query
       ELSE query' = "error" /\ failures' = 0
  /\ UNCHANGED <<env, mounted, listening, applied, wires, hook, frame, heard>>

LiveWorld == ServerStops \/ ServerStarts \/ LedgerChanges
LiveInside ==
  \/ RunEffects
  \/ \E s \in Sockets : SnapshotArrives(s) \/ NotAvailableArrives(s) \/ ErrorArrives(s)
  \/ \E t \in Timers : TimerFires(t)
  \/ RetryFromStatus \/ RetryFromError \/ QueryAnswers \/ QueryFails

LiveNext == LiveWorld \/ TabChanges \/ Mount \/ Unmount \/ LiveInside

(* Effects and timers run, a dead connection is reported, a server that    *)
(* tracks calls pushes a frame every two seconds. Nobody need press Retry. *)
LiveFairness ==
  /\ WF_liveVars(RunEffects)
  /\ \A s \in Sockets : WF_liveVars(SnapshotArrives(s)) /\ WF_liveVars(ErrorArrives(s))
  /\ \A t \in Timers : WF_liveVars(TimerFires(t))
  /\ WF_liveVars(QueryAnswers \/ QueryFails)

LiveSpec == LiveInit /\ [][LiveNext]_liveVars /\ LiveFairness

-----------------------------------------------------------------------------
LiveTypeOK ==
  /\ tab \in {"visible", "hidden"} /\ up \in BOOLEAN /\ tracking \in BOOLEAN
  /\ mounted \in BOOLEAN /\ listening \in BOOLEAN
  /\ hidden \in BOOLEAN /\ bumped \in BOOLEAN
  /\ applied \in {"never", "hidden", "visible"}
  /\ socket \in [Sockets -> {"shut", "open", "broken"}]
  /\ source \in Sockets \cup {None}
  /\ timers \subseteq Timers /\ timerRef \in Timers \cup {None}
  /\ attempt \in 0..OfflineAfter /\ state \in SocketState
  /\ frame \in BOOLEAN
  /\ query \in QueryState /\ failures \in 0..MaxRetries
  /\ heard \in Answer

(* Never two connections to a server that is being retried gently: one     *)
(* held socket or one pending timer, never two of either and never both,   *)
(* and the timer is the one the hook can still cancel.                     *)
OneConnection ==
  /\ \A s \in Held : s = source
  /\ \A t \in timers : t = timerRef
  /\ Held = {} \/ timers = {}

(* A page in front of the reader always has somebody to bring the next     *)
(* frame: once the effects ran there is a socket or a timer, and none of   *)
(* either for a hidden tab or a page that is gone.                         *)
SomebodyListens ==
  /\ mounted /\ Settled => ((Held # {} \/ timers # {}) <=> ~hidden)
  /\ ~mounted => Held = {} /\ timers = {}

(* The two together: one socket or one timer for a page that is looked at, *)
(* none for one that is not.                                               *)
ExactlyOneListens == OneConnection /\ SomebodyListens

(* "live" is never a memory: the label stands only while a connection is   *)
(* held, with no failure reported since, and beside a frame that was drawn.*)
LiveIsEarned ==
  mounted /\ Connection = "live" => frame /\ attempt = 0 /\ Held # {}

(* A reachable, tracking server is shown live in the end, whatever         *)
(* failures, hidings and retries came before.                              *)
Recovers ==
  <>[](mounted /\ up /\ tracking /\ ~hidden) => <>[](Connection = "live")

(* useLiveStream.ts:53 on notAvailableReason: "Set when the server         *)
(* answered `not_available`; the page must not draw numbers then."         *)
NotAvailableIsShown ==
  mounted /\ heard = "not_available" => Drawn # "body"

(* useLiveStream.ts:8: "This closes on `visibilitychange` and reopens when *)
(* the tab comes back."                                                    *)
TabIsFollowed ==
  mounted /\ Settled => (hidden <=> tab = "hidden")
=============================================================================

------------------------------- MODULE Seams -------------------------------
(***************************************************************************)
(* The process-wide seams into tau2 and the threads that share them: the   *)
(* module attribute llm_utils.completion, which the router rebinds for a   *)
(* session (adapters/tau2_llm.py, route_tau2_llm) and the replay engine    *)
(* rebinds under it (tau2_replay.py, _CompletionDispatcher); and the model *)
(* of tau2's NL-assertion judge (tau2_judge.py, judge_routed).  What a     *)
(* thread does with the answers is TapeReplay's business.                  *)
(*                                                                         *)
(* An evaluation runs forks in its threads, those of its per-step          *)
(* sensitivity after its session is closed (cli_eval.py:403).  A collection*)
(* records runs in some threads while it forks in others, and sets the     *)
(* judge once for all of them.  Replays need no session.                   *)
(***************************************************************************)
EXTENDS Naturals

CONSTANTS
  Threads, (* worker threads                                               *)
  Sessions,(* kinds of session: "eval", "collect"                          *)
  Jobs     (* bound: jobs begun                                            *)

ASSUME SeamsAssumption ==
  /\ Jobs \in Nat
  /\ Sessions \subseteq {"eval", "collect"}
  /\ Threads \intersect {"main", "router", "litellm", "nobody"} = {}

VARIABLES
  session,    (* the session the main thread holds, or "none"              *)
  completion, (* llm_utils.completion                                      *)
  fallback,   (* what the dispatcher found there, or "none"                *)
  depth,      (* its holders                                               *)
  serving,    (* threads whose ContextVar names their replayer             *)
  judge,      (* DEFAULT_LLM_NL_ASSERTIONS: default or chosen              *)
  saved,      (* what each thread found there, and the main thread         *)
  pc, work,   (* where a thread stands, and on what job                    *)
  target,     (* what its call read from the attribute                     *)
  heard,      (* who answered the thread's last completion                 *)
  judged,     (* the model its last evaluator call named                   *)
  outer,      (* history: who had the judge when a fork came for it        *)
  crossed,    (* history: have two forks had it otherwise than nested?     *)
  jobs        (* for the bound                                             *)

seamsVars == <<session, completion, fallback, depth, serving, judge, saved,
              pc, work, target, heard, judged, outer, crossed, jobs>>

Working == {"repointing", "patched", "installed", "ready", "called", "over", "unbound",
            "uninstalled"}

SeamsTypeOK ==
  /\ session \in {"none"} \union Sessions
  /\ completion \in {"litellm", "router", "dispatcher"}
  /\ fallback \in {"none", "litellm", "router"}
  /\ depth \in Nat
  /\ serving \subseteq Threads
  /\ judge \in {"default", "chosen"}
  /\ saved \in [Threads \union {"main"} -> {"default", "chosen"}]
  /\ pc \in [Threads -> Working \union {"idle"}]
  /\ work \in [Threads -> {"fork", "record", "replay"}]
  /\ target \in [Threads -> {"litellm", "router", "dispatcher"}]
  /\ heard \in [Threads -> Threads \union {"unasked", "litellm", "router", "nobody"}]
  /\ judged \in [Threads -> {"unasked", "default", "chosen"}]
  /\ outer \in [Threads -> SUBSET Threads]
  /\ crossed \in BOOLEAN
  /\ jobs \in Nat

Goto(t, label) == pc' = [pc EXCEPT ![t] = label]
SeamsUnchanged == UNCHANGED <<session, completion, fallback, depth, serving, judge, saved>>
JobUnchanged   == UNCHANGED <<work, target, heard, judged, outer, crossed, jobs>>

-----------------------------------------------------------------------------
SeamsInit ==
  /\ session = "none"
  /\ completion = "litellm"
  /\ fallback = "none"
  /\ depth = 0
  /\ serving = {}
  /\ judge = "default"
  /\ saved = [t \in Threads \union {"main"} |-> "default"]
  /\ pc = [t \in Threads |-> "idle"]
  /\ work = [t \in Threads |-> "replay"]
  /\ target = [t \in Threads |-> "litellm"]
  /\ heard = [t \in Threads |-> "unasked"]
  /\ judged = [t \in Threads |-> "unasked"]
  /\ outer = [t \in Threads |-> {}]
  /\ crossed = FALSE
  /\ jobs = 0

Quiet == \A t \in Threads : pc[t] = "idle"

(* Entered and left by the main thread, around its pools. *)
OpenSession(kind) ==
  /\ session = "none" /\ Quiet
  /\ session' = kind
  /\ completion' = "router"
  /\ IF kind = "collect" THEN judge' = "chosen" /\ saved' = [saved EXCEPT !["main"] = judge]
     ELSE UNCHANGED <<judge, saved>>
  /\ UNCHANGED <<fallback, depth, serving, pc>>
  /\ JobUnchanged

CloseSession ==
  /\ session # "none" /\ Quiet
  /\ session' = "none"
  /\ completion' = "litellm"
  /\ judge' = IF session = "collect" THEN saved["main"] ELSE judge
  /\ UNCHANGED <<fallback, depth, serving, saved, pc>>
  /\ JobUnchanged

Begin(t, what) ==
  /\ pc[t] = "idle"
  /\ jobs < Jobs
  /\ jobs' = jobs + 1
  /\ work' = [work EXCEPT ![t] = what]
  /\ heard' = [heard EXCEPT ![t] = "unasked"]
  /\ judged' = [judged EXCEPT ![t] = "unasked"]
  /\ UNCHANGED target

(* Tau2ForkExecutor._run_once repoints the judge around every fork of an   *)
(* evaluation: judge_routed reads it, ...                                  *)
Inside == {t \in Threads : session # "collect" /\ work[t] = "fork" /\ pc[t] # "idle"}

BeginFork(t) ==
  /\ Begin(t, "fork")
  /\ IF session # "collect"
     THEN /\ Goto(t, "repointing")
          /\ saved' = [saved EXCEPT ![t] = judge]
          /\ outer' = [outer EXCEPT ![t] = Inside]
          /\ crossed' = (crossed \/ \E u \in Inside : pc[u] = "repointing")
     ELSE Goto(t, "patched") /\ UNCHANGED <<saved, outer, crossed>>
  /\ UNCHANGED <<session, completion, fallback, depth, serving, judge>>

(* ... and then writes it. *)
Repoint(t) ==
  /\ pc[t] = "repointing"
  /\ judge' = "chosen"
  /\ Goto(t, "patched")
  /\ UNCHANGED <<session, completion, fallback, depth, serving, saved>>
  /\ JobUnchanged

BeginReplay(t) ==
  /\ session = "none"
  /\ Begin(t, "replay")
  /\ Goto(t, "patched")
  /\ SeamsUnchanged
  /\ UNCHANGED <<outer, crossed>>

BeginRecord(t) ==
  /\ session = "collect"
  /\ Begin(t, "record")
  /\ Goto(t, "ready")
  /\ SeamsUnchanged
  /\ UNCHANGED <<outer, crossed>>

(* installed(): the first holder installs, under the lock. *)
Install(t) ==
  /\ pc[t] = "patched"
  /\ IF depth = 0 THEN fallback' = completion /\ completion' = "dispatcher"
     ELSE UNCHANGED <<fallback, completion>>
  /\ depth' = depth + 1
  /\ Goto(t, "installed")
  /\ UNCHANGED <<session, serving, judge, saved>>
  /\ JobUnchanged

Bind(t) ==
  /\ pc[t] = "installed"
  /\ serving' = serving \union {t}
  /\ Goto(t, "ready")
  /\ UNCHANGED <<session, completion, fallback, depth, judge, saved>>
  /\ JobUnchanged

(* generate() reads the module attribute ...                               *)
Call(t) ==
  /\ pc[t] = "ready"
  /\ target' = [target EXCEPT ![t] = completion]
  /\ Goto(t, "called")
  /\ SeamsUnchanged
  /\ UNCHANGED <<work, heard, judged, outer, crossed, jobs>>

(* ... and calls what it read; the dispatcher asks who is serving.         *)
AnswererBugGlobal(t) ==  (* bug: the last replayer bound serves everybody *)
  CASE target[t] # "dispatcher" -> target[t]
    [] target[t] = "dispatcher" /\ serving # {} -> CHOOSE u \in serving : TRUE
    [] OTHER -> IF fallback = "none" THEN "nobody" ELSE fallback
Answerer(t) ==
  CASE target[t] # "dispatcher" -> target[t]
    [] target[t] = "dispatcher" /\ t \in serving -> t
    [] OTHER -> IF fallback = "none" THEN "nobody" ELSE fallback

Route(t) ==
  /\ pc[t] = "called"
  /\ heard' = [heard EXCEPT ![t] = Answerer(t)]
  /\ Goto(t, "ready")
  /\ SeamsUnchanged
  /\ UNCHANGED <<work, target, judged, outer, crossed, jobs>>

(* The reward, with or without an NL assertion to judge. *)
Evaluate(t) ==
  /\ pc[t] = "ready"
  /\ judged' = [judged EXCEPT ![t] = judge]
  /\ Goto(t, "over")
  /\ SeamsUnchanged
  /\ UNCHANGED <<work, target, heard, outer, crossed, jobs>>

(* The run ends without one, or an exception unwinds it. *)
Unjudged(t) ==
  /\ pc[t] = "ready"
  /\ Goto(t, "over")
  /\ SeamsUnchanged
  /\ JobUnchanged

EndRecord(t) ==
  /\ pc[t] = "over" /\ work[t] = "record"
  /\ Goto(t, "idle")
  /\ SeamsUnchanged
  /\ JobUnchanged

Unbind(t) ==
  /\ pc[t] = "over" /\ work[t] # "record"
  /\ serving' = serving \ {t}
  /\ Goto(t, "unbound")
  /\ UNCHANGED <<session, completion, fallback, depth, judge, saved>>
  /\ JobUnchanged

(* The last holder restores. *)
UninstallBugFirst(t) ==  (* bug: whoever leaves restores *)
  /\ pc[t] = "unbound"
  /\ depth' = depth - 1
  /\ IF fallback # "none" THEN completion' = fallback /\ fallback' = "none"
     ELSE UNCHANGED <<completion, fallback>>
  /\ Goto(t, "uninstalled")
  /\ UNCHANGED <<session, serving, judge, saved>>
  /\ JobUnchanged
Uninstall(t) ==
  /\ pc[t] = "unbound"
  /\ depth' = depth - 1
  /\ IF depth = 1 THEN completion' = fallback /\ fallback' = "none"
     ELSE UNCHANGED <<completion, fallback>>
  /\ Goto(t, "uninstalled")
  /\ UNCHANGED <<session, serving, judge, saved>>
  /\ JobUnchanged

(* What judge_routed found is put back, whoever has come for it since.     *)
Leave(t, put) ==
  /\ pc[t] = "uninstalled"
  /\ Goto(t, "idle")
  /\ IF t \in Inside
     THEN /\ judge' = put
          /\ crossed' = (crossed \/ \E u \in Inside : t \in outer[u])
          /\ outer' = [outer EXCEPT ![t] = {}]
     ELSE UNCHANGED <<judge, crossed, outer>>
  /\ UNCHANGED <<session, completion, fallback, depth, serving, saved>>
  /\ UNCHANGED <<work, target, heard, judged, jobs>>

EndForkBugDefault(t) == Leave(t, "default")  (* bug: not what was found, tau2's own *)
EndFork(t) == Leave(t, saved[t])

-----------------------------------------------------------------------------
SeamsNext ==
  \/ \E kind \in Sessions : OpenSession(kind)
  \/ CloseSession
  \/ \E t \in Threads :
       \/ BeginFork(t) \/ Repoint(t) \/ BeginReplay(t) \/ BeginRecord(t)
       \/ Install(t) \/ Bind(t) \/ Call(t) \/ Route(t)
       \/ Evaluate(t) \/ Unjudged(t) \/ EndRecord(t)
       \/ Unbind(t) \/ Uninstall(t) \/ EndFork(t)

SeamsSpec == SeamsInit /\ [][SeamsNext]_seamsVars

-----------------------------------------------------------------------------
(* Properties.                                                             *)

(* A fork or a replay is only ever answered by its own replayer, and a     *)
(* recording never by somebody's tape or past the router (tau2_replay.py,  *)
(* _CompletionDispatcher), whichever threads come and go meanwhile.  The   *)
(* one thing that can happen to a recording is that nobody answers: it     *)
(* read the seam while a fork had it, and called after the last had left.  *)
OwnVoice ==
  \A t \in Threads : heard[t] # "unasked" =>
    heard[t] \in IF work[t] = "record" THEN {"router", "nobody"} ELSE {t}

(* The seam is left as it was found: the dispatcher is in place exactly    *)
(* while somebody holds it, over whatever belongs there.                   *)
Underneath == IF session = "none" THEN "litellm" ELSE "router"

SeamIsRestored ==
  IF depth = 0 THEN completion = Underneath /\ fallback = "none"
  ELSE completion = "dispatcher" /\ fallback = Underneath

(* Every evaluator call of a fork or a recording names the chosen judge    *)
(* (tau2_fork.py, item 4 of its docstring), and the judge is left as it    *)
(* was found (tau2_judge.py: "for the duration of a session").             *)
JudgedByChosen == \A t \in Threads : work[t] # "replay" => judged[t] # "default"

(* It holds of evaluations whose forks have the judge one inside another:  *)
(* who comes later reads it after the earlier one's write and leaves       *)
(* first.  In any other order of two forks it does not.  A collection has  *)
(* no such order to keep: it repoints the judge once, around its pool.     *)
JudgeNests ==
  ~crossed =>
    /\ JudgedByChosen
    /\ Quiet /\ session # "collect" => judge = "default"
=============================================================================

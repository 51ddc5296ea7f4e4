---------------------------- MODULE ReplayProofs ---------------------------
(***************************************************************************)
(* Proofs about what a replay stands on. The tape, for runs of any length, *)
(* any number of them, any interventions and any answers: a fork is its    *)
(* parent up to the fork step, a recording never diverges from itself, and *)
(* what is scored was lived. And the process-wide seams, for any threads   *)
(* and sessions: who serves a call, and under whose judge.                 *)
(***************************************************************************)
EXTENDS TapeReplay, Seams, FiniteSetTheorems, TLAPS

(***************************************************************************)
(* The tape.                                                               *)
(***************************************************************************)
USE ReplayAssumption

Said == AgentSays \union UserSays \union Verdicts
Prompts == {"plain", "edited"}
Run == [steps : Seq(Step), outcome : {0, 1, NoOutcome}]

(* The answers of the first n rows, and the world after them.              *)
Before(s, n) == [j \in 1..n |-> s[j].event]
WorldAt(s, n) == IF n = 0 THEN 0 ELSE s[n].after

(* What every row of the tape says of the rows above it, whoever wrote it: *)
(* it is the turn of its actor, it was asked with the answers so far, and  *)
(* it acted on the world they left.                                        *)
RowOk(s, i) ==
  /\ s[i].event.by = NextActor(Before(s, i - 1))
  /\ s[i].before = WorldAt(s, i - 1)
  /\ s[i].asked = (IF s[i].event.by = "tool" THEN <<>> ELSE Before(s, i - 1))
  /\ s[i].event.by = "tool" =>
       i > 1 /\ s[i].event.said = s[i - 1].event.said /\ s[i].prompt = "plain"
  /\ s[i].event.by # "tool" => s[i].event.result = 0 /\ s[i].after = s[i].before

RowsOk == \A p \in DOMAIN runs : \A i \in DOMAIN runs[p].steps : RowOk(runs[p].steps, i)

(* What a session was started with.                                        *)
JobOk ==
  /\ job.kind # "record" => job.parent \in DOMAIN runs
  /\ Forking => /\ job.parent < Len(runs)
                /\ job.step < Len(Parent)
                /\ job.mode # "verify"
  /\ job.unsafe => Forking /\ job.mode = "rerun_live"
  /\ job.kind = "replay" => ~job.hook /\ job.mode # "rerun_live"
  /\ Running /\ job.kind # "replay" =>
       runs # <<>> /\ runs[Len(runs)].outcome = NoOutcome

(* The tape of a run in progress is what it has lived.                     *)
Lived == Running /\ job.kind # "replay" =>
  /\ hist = Before(Child, Len(Child))
  /\ world = WorldAt(Child, Len(Child))

(* Up to the fork step the run hears the turns of its parent ...           *)
Follows == Running /\ Governed =>
  /\ events <= Len(Parent)
  /\ \A i \in 1..events : /\ hist[i].by = Parent[i].event.by
                          /\ hist[i].said = Parent[i].event.said

(* ... and, where the tools cannot answer differently, its very answers.   *)
Exactly ==
  \/ job.kind = "replay"
  \/ job.mode = "snapshot"
  \/ ~job.hook /\ Honest(runs[job.parent])
FollowsExactly == Running /\ Governed /\ Exactly =>
  /\ hist = Before(Parent, events)
  /\ world = WorldAt(Parent, events)

TapeInv ==
  /\ TypeOK /\ JobOk /\ LockStep /\ RowsOk
  /\ Lived /\ Follows /\ FollowsExactly
  /\ PrefixIsTheParents /\ ToolsActOnTheirBefore
  /\ VerdictsAreEarned /\ NoFalseDivergence

-----------------------------------------------------------------------------
(***************************************************************************)
(* One step of a run.                                                      *)
(***************************************************************************)
NewRow(event, prompt, w, tape) ==
  [event |-> event, asked |-> IF event.by = "tool" THEN <<>> ELSE hist,
   prompt |-> prompt, before |-> world, after |-> w, from_tape |-> tape]

(* What the four ways to take a step have in common.                       *)
Taken(event, prompt, w, tape) ==
  /\ Running
  /\ Recorded(NewRow(event, prompt, w, tape))
  /\ hist' = Append(hist, event)
  /\ world' = w
  /\ events' = events + 1
  /\ cursor' = IF Governed THEN cursor + 1 ELSE cursor
  /\ UNCHANGED <<job, verdict>>

(* What is true of the step whichever it was.                              *)
Turn(event, prompt, w) ==
  /\ event.by = Asked
  /\ event.by = "tool" => /\ hist # <<>>
                          /\ event.said = Last(hist).said
                          /\ prompt = "plain"
  /\ event.by # "tool" => event.result = 0 /\ w = world

(* What is true of a step the tape has a say in ...                        *)
Heard(event, prompt, w, tape) == Governed =>
  /\ cursor < Len(Parent)
  /\ event.by = Peek.event.by
  /\ ~job.unsafe /\ event.by # "tool" => Peek.asked = hist /\ Peek.prompt = "plain"
  /\ ~AtFork \/ job.iv = "noop" =>
       /\ tape /\ prompt = "plain"
       /\ event.said = Peek.event.said
       /\ job.mode = "snapshot" => event.result = Peek.event.result
       /\ event.by = "tool" /\ job.mode = "snapshot" => w = Peek.after
       /\ event.by = "tool" /\ job.mode = "verify" =>
            event.result = Peek.event.result /\ w = Peek.after
       /\ event.by = "tool" /\ job.mode = "rerun_live" /\ ~job.hook =>
            event.result = Effect(event.said, world)

(* ... and of the world after a tool.                                      *)
Moved(event, w, tape) ==
  /\ ~Governed => ~tape
  /\ event.by = "tool" =>
       \/ w = Effect(event.said, world)
       \/ AtFork /\ job.iv \in {"resample", "edit"}
       \/ /\ Governed /\ job.mode # "rerun_live"
          /\ event.said = Peek.event.said /\ w = Peek.after

Fits(event, prompt, w, tape) ==
  /\ event \in Event /\ prompt \in Prompts /\ w \in Nat /\ tape \in BOOLEAN
  /\ Taken(event, prompt, w, tape)
  /\ Turn(event, prompt, w)
  /\ Heard(event, prompt, w, tape)
  /\ Moved(event, w, tape)

-----------------------------------------------------------------------------
(***************************************************************************)
(* Sequences of rows.                                                      *)
(***************************************************************************)
(* What a tool does to a world is a world.                                 *)
LEMMA EffectType ==
  ASSUME NEW tool, NEW w \in Nat
  PROVE  Effect(tool, w) \in Nat
  BY DEF Effect

(* The answers of the first rows are answers.                              *)
LEMMA BeforeType ==
  ASSUME NEW s \in Seq(Step), NEW n \in 0..Len(s)
  PROVE  Before(s, n) \in Seq(Event) /\ Len(Before(s, n)) = n
  <1>1. ASSUME NEW j \in 1..n
        PROVE  s[j].event \in Event
    <2>1. s[j] \in Step
      OBVIOUS
    <2> QED BY <2>1 DEF Step
  <1>2. n \in Nat
    OBVIOUS
  <1>3. Before(s, n) \in [1..n -> Event]
    BY <1>1 DEF Before
  <1> QED BY <1>2, <1>3

(* Rows above one that is added stay what they were.                       *)
LEMMA BeforeAppend ==
  ASSUME NEW s \in Seq(Step), NEW row \in Step, NEW n \in 0..Len(s)
  PROVE  Before(Append(s, row), n) = Before(s, n)
  <1>1. \A j \in 1..n : Append(s, row)[j] = s[j]
    OBVIOUS
  <1> QED BY <1>1 DEF Before

(* The answers of one row more are the answers and its own.                *)
LEMMA BeforeNext ==
  ASSUME NEW s \in Seq(Step), NEW n \in 0..(Len(s) - 1)
  PROVE  Before(s, n + 1) = Append(Before(s, n), s[n + 1].event)
  <1>1. Before(s, n) \in Seq(Event) /\ Len(Before(s, n)) = n
    BY BeforeType
  <1>2. Before(s, n + 1) \in Seq(Event) /\ Len(Before(s, n + 1)) = n + 1
    BY BeforeType
  <1>3. s[n + 1].event \in Event
    <2>1. s[n + 1] \in Step
      OBVIOUS
    <2> QED BY <2>1 DEF Step
  <1>4. \A j \in 1..(n + 1) :
          Before(s, n + 1)[j] = Append(Before(s, n), s[n + 1].event)[j]
    BY <1>1, <1>3 DEF Before
  <1> QED BY <1>1, <1>2, <1>3, <1>4

(* The world after rows that stay is the one it was.                       *)
LEMMA WorldAppend ==
  ASSUME NEW s \in Seq(Step), NEW row \in Step, NEW n \in 0..Len(s)
  PROVE  WorldAt(Append(s, row), n) = WorldAt(s, n)
  BY DEF WorldAt

(* Whose turn it is depends on how many answers there are, and on who gave *)
(* the last one and what it said.                                          *)
LEMMA SameTurn ==
  ASSUME NEW g \in Seq(Event), NEW h \in Seq(Event), Len(g) = Len(h),
         \A i \in 1..Len(h) : g[i].by = h[i].by /\ g[i].said = h[i].said
  PROVE  NextActor(g) = NextActor(h)
  <1>1. CASE h = <<>>
    <2>1. g = <<>>
      BY <1>1
    <2> QED BY <1>1, <2>1
  <1>2. CASE h # <<>>
    <2>1. g # <<>> /\ Len(h) \in 1..Len(h)
      BY <1>2
    <2>2. Last(g).by = Last(h).by /\ Last(g).said = Last(h).said
      BY <2>1 DEF Last
    <2> QED BY <1>2, <2>1, <2>2, Zenon DEF NextActor
  <1> QED BY <1>1, <1>2

(* A row is right or wrong whatever is added below it.                     *)
LEMMA RowKept ==
  ASSUME NEW s \in Seq(Step), NEW row \in Step, NEW i \in 1..Len(s), RowOk(s, i)
  PROVE  RowOk(Append(s, row), i)
  <1> DEFINE t == Append(s, row)
  <1>1. t[i] = s[i] /\ (i > 1 => t[i - 1] = s[i - 1])
    OBVIOUS
  <1>2. i - 1 \in 0..Len(s)
    OBVIOUS
  <1>3. Before(t, i - 1) = Before(s, i - 1) /\ WorldAt(t, i - 1) = WorldAt(s, i - 1)
    BY <1>2, BeforeAppend, WorldAppend
  <1> QED BY <1>1, <1>3, Zenon DEF RowOk

-----------------------------------------------------------------------------
(***************************************************************************)
(* The session.                                                            *)
(***************************************************************************)
(* The types of the parts.                                                 *)
LEMMA Parts ==
  ASSUME TypeOK, JobOk
  PROVE  /\ job.kind \in {"record", "replay", "fork"}
         /\ job.parent \in Nat /\ job.step \in Nat
         /\ job.mode \in {"verify", "snapshot", "rerun_live"}
         /\ job.iv \in {"noop", "resample", "edit", "replace", "truth", "force"}
         /\ job.hook \in BOOLEAN /\ job.unsafe \in BOOLEAN
         /\ \A p \in DOMAIN runs : runs[p] \in Run /\ runs[p].steps \in Seq(Step)
         /\ Len(runs) \in Nat /\ DOMAIN runs = 1..Len(runs)
         /\ job.kind # "record" => Parent \in Seq(Step)
         /\ Running /\ job.kind # "replay" => Len(runs) \in DOMAIN runs /\ Child \in Seq(Step)
  <1>1. job \in Job /\ runs \in Seq(Run)
    BY DEF TypeOK, Run
  <1>2. \A p \in DOMAIN runs : runs[p] \in Run
    BY <1>1
  <1>3. \A p \in DOMAIN runs : runs[p].steps \in Seq(Step)
    BY <1>2 DEF Run
  <1>4. Len(runs) \in Nat /\ DOMAIN runs = 1..Len(runs)
    BY <1>1
  <1>5. Running /\ job.kind # "replay" => Len(runs) \in DOMAIN runs
    BY <1>1, <1>4 DEF JobOk
  <1>6. /\ job.kind \in {"record", "replay", "fork"}
        /\ job.parent \in Nat /\ job.step \in Nat
        /\ job.mode \in {"verify", "snapshot", "rerun_live"}
        /\ job.iv \in Kinds \union {"noop"}
        /\ job.hook \in BOOLEAN /\ job.unsafe \in BOOLEAN
    BY <1>1 DEF Job
  <1> QED BY <1>2, <1>3, <1>4, <1>5, <1>6 DEF JobOk, Parent, Child

(* A step of the world is a record of these parts.                         *)
LEMMA StepParts ==
  ASSUME NEW row \in Step
  PROVE  /\ row.event \in Event /\ row.asked \in Seq(Event)
         /\ row.prompt \in Prompts /\ row.before \in Nat /\ row.after \in Nat
         /\ row.from_tape \in BOOLEAN
         /\ row.event.by \in LLMActors \union {"tool"}
         /\ row.event.said \in Said /\ row.event.result \in Nat
  <1>1. row.event \in Event /\ row.asked \in Seq(Event)
         /\ row.prompt \in Prompts /\ row.before \in Nat /\ row.after \in Nat
         /\ row.from_tape \in BOOLEAN
    BY DEF Step, Prompts
  <1>2. row.event.by \in LLMActors \union {"tool"}
         /\ row.event.said \in Said /\ row.event.result \in Nat
    BY <1>1 DEF Event, Said
  <1> QED BY <1>1, <1>2

(* What is said of the row after the first n.                              *)
LEMMA RowAfter ==
  ASSUME NEW s, NEW n \in Nat
  PROVE  RowOk(s, n + 1) <=>
         /\ s[n + 1].event.by = NextActor(Before(s, n))
         /\ s[n + 1].before = WorldAt(s, n)
         /\ s[n + 1].asked = (IF s[n + 1].event.by = "tool" THEN <<>> ELSE Before(s, n))
         /\ s[n + 1].event.by = "tool" =>
              n > 0 /\ s[n + 1].event.said = s[n].event.said /\ s[n + 1].prompt = "plain"
         /\ s[n + 1].event.by # "tool" =>
              s[n + 1].event.result = 0 /\ s[n + 1].after = s[n + 1].before
  <1>1. n + 1 - 1 = n /\ (n + 1 > 1 <=> n > 0)
    OBVIOUS
  <1>2. \A i : i - 1 = n /\ (i > 1 <=> n > 0) =>
          (RowOk(s, i) <=>
             /\ s[i].event.by = NextActor(Before(s, n))
             /\ s[i].before = WorldAt(s, n)
             /\ s[i].asked = (IF s[i].event.by = "tool" THEN <<>> ELSE Before(s, n))
             /\ s[i].event.by = "tool" =>
                  n > 0 /\ s[i].event.said = s[n].event.said /\ s[i].prompt = "plain"
             /\ s[i].event.by # "tool" => s[i].event.result = 0 /\ s[i].after = s[i].before)
    BY Zenon DEF RowOk
  <1> QED BY <1>1, <1>2

(* The step next on the tape is that of the actor who is asked.            *)
LEMMA PeekFacts ==
  ASSUME TapeInv, Running, Governed, cursor < Len(Parent)
  PROVE  /\ cursor = events /\ Len(hist) = cursor
         /\ cursor + 1 \in 1..Len(Parent) /\ Peek \in Step
         /\ RowOk(Parent, cursor + 1)
         /\ Peek.event.by = Asked
         /\ Peek.asked = (IF Peek.event.by = "tool" THEN <<>> ELSE Before(Parent, cursor))
         /\ Peek.before = WorldAt(Parent, cursor)
         /\ Peek.event.by = "tool" =>
              hist # <<>> /\ Peek.event.said = Last(hist).said /\ Peek.prompt = "plain"
         /\ Peek.event.by # "tool" => Peek.event.result = 0 /\ Peek.after = Peek.before
  <1>1. /\ Parent \in Seq(Step) /\ job.parent \in DOMAIN runs
        /\ hist \in Seq(Event) /\ cursor \in Nat /\ events \in Nat /\ job.step \in Nat
    BY Parts DEF TapeInv, TypeOK, JobOk, Governed
  <1>2. cursor = events /\ Len(hist) = cursor
    BY <1>1 DEF TapeInv, LockStep, Governed, Forking
  <1>3. cursor + 1 \in 1..Len(Parent) /\ Peek \in Step /\ cursor \in 0..Len(Parent)
    BY <1>1 DEF Peek
  <1>4. RowOk(Parent, cursor + 1)
    <2>1. Parent = runs[job.parent].steps
      BY DEF Parent
    <2>2. cursor + 1 \in DOMAIN runs[job.parent].steps
      BY <1>1, <1>3, <2>1
    <2> QED BY <1>1, <2>1, <2>2, Zenon DEF TapeInv, RowsOk
  <1>6. /\ Peek.event.by = NextActor(Before(Parent, cursor))
        /\ Peek.before = WorldAt(Parent, cursor)
        /\ Peek.asked = (IF Peek.event.by = "tool" THEN <<>> ELSE Before(Parent, cursor))
        /\ Peek.event.by = "tool" =>
             /\ cursor > 0 /\ Peek.event.said = Parent[cursor].event.said
             /\ Peek.prompt = "plain"
        /\ Peek.event.by # "tool" => Peek.event.result = 0 /\ Peek.after = Peek.before
    BY <1>1, <1>4, RowAfter DEF Peek
  <1>7. \A i \in 1..cursor : /\ hist[i].by = Parent[i].event.by
                             /\ hist[i].said = Parent[i].event.said
    BY <1>2 DEF TapeInv, Follows
  <1>8. Asked = NextActor(Before(Parent, cursor))
    <2>1. Before(Parent, cursor) \in Seq(Event) /\ Len(Before(Parent, cursor)) = cursor
      BY <1>1, <1>3, BeforeType
    <2>2. \A i \in 1..cursor : Before(Parent, cursor)[i] = Parent[i].event
      BY DEF Before
    <2>3. \A i \in 1..cursor : /\ hist[i].by = Before(Parent, cursor)[i].by
                               /\ hist[i].said = Before(Parent, cursor)[i].said
      BY <1>7, <2>2
    <2> QED BY <1>1, <1>2, <2>1, <2>3, SameTurn DEF Asked
  <1>9. ASSUME Peek.event.by = "tool"
        PROVE  hist # <<>> /\ Peek.event.said = Last(hist).said
    <2>1. cursor \in 1..cursor
      BY <1>1, <1>6, <1>9
    <2> QED BY <1>1, <1>2, <1>6, <1>7, <1>9, <2>1 DEF Last
  <1> QED BY <1>2, <1>3, <1>4, <1>6, <1>8, <1>9

-----------------------------------------------------------------------------
(***************************************************************************)
(* The four ways to take a step.                                           *)
(***************************************************************************)
(* Recording a row of an event as it is.                                   *)
LEMMA Happened ==
  ASSUME NEW event \in Event, NEW prompt, NEW w, NEW tape, Running,
         Happens(event.by, event, prompt, w, tape),
         cursor' = IF Governed THEN cursor + 1 ELSE cursor
  PROVE  Taken(event, prompt, w, tape)
  <1>1. [event EXCEPT !.by = event.by] = event
    BY DEF Event
  <1> QED BY <1>1 DEF Happens, Taken, NewRow

(* A live answer of a model.                                               *)
LEMMA LiveLLMFits ==
  ASSUME TapeInv, LiveLLM
  PROVE  \E event, prompt, w, tape : Fits(event, prompt, w, tape)
  <1> DEFINE prompt == IF Shaping THEN "edited" ELSE "plain"
  <1>1. Running /\ Asked \in LLMActors /\ world \in Nat
    BY DEF LiveLLM, TapeInv, TypeOK
  <1>2. PICK said \in Sayable(Asked) :
          Happens(Asked, [by |-> Asked, said |-> said, result |-> 0], prompt, world, FALSE)
    BY DEF LiveLLM
  <1> DEFINE event == [by |-> Asked, said |-> said, result |-> 0]
  <1>3. event \in Event
    BY <1>1, <1>2 DEF Event, Sayable, LLMActors
  <1>4. event.by = Asked /\ event.result = 0 /\ event.by # "tool"
    BY <1>1 DEF LLMActors
  <1>5. cursor' = IF Governed THEN cursor + 1 ELSE cursor
    BY DEF LiveLLM
  <1>6. Taken(event, prompt, world, FALSE)
    BY <1>1, <1>2, <1>3, <1>4, <1>5, Happened
  <1>7. Turn(event, prompt, world)
    BY <1>4 DEF Turn
  <1>8. Heard(event, prompt, world, FALSE)
    <2>1. SUFFICES ASSUME Governed PROVE Heard(event, prompt, world, FALSE)
      BY DEF Heard
    <2>2. LLMMatches /\ GoesLive
      BY <2>1 DEF LiveLLM
    <2>3. cursor < Len(Parent) /\ (~job.unsafe => Peek.asked = hist /\ Peek.prompt = "plain")
      BY <2>2 DEF LLMMatches
    <2>4. Peek.event.by = Asked
      BY <1>1, <2>1, <2>3, PeekFacts
    <2>5. AtFork /\ job.iv # "noop"
      BY <2>2 DEF GoesLive
    <2> QED BY <1>4, <2>3, <2>4, <2>5 DEF Heard
  <1>9. Moved(event, world, FALSE)
    BY <1>4 DEF Moved
  <1>10. prompt \in Prompts
    BY DEF Prompts
  <1> HIDE DEF event, prompt
  <1> QED BY <1>1, <1>3, <1>6, <1>7, <1>8, <1>9, <1>10 DEF Fits

(* A model's answer from the tape.                                         *)
LEMMA ServeLLMFits ==
  ASSUME TapeInv, ServeLLM
  PROVE  \E event, prompt, w, tape : Fits(event, prompt, w, tape)
  <1>1. Running /\ Governed /\ Asked \in LLMActors /\ world \in Nat
    BY DEF ServeLLM, TapeInv, TypeOK
  <1>2. LLMMatches /\ cursor < Len(Parent)
        /\ (~job.unsafe => Peek.asked = hist /\ Peek.prompt = "plain")
    BY DEF ServeLLM, LLMMatches
  <1>3. Peek \in Step /\ Peek.event.by = Asked /\ Peek.event.by # "tool"
        /\ Peek.event.result = 0
    BY <1>1, <1>2, PeekFacts DEF LLMActors
  <1>4. PICK said \in (IF AtFork /\ job.iv = "force" THEN AgentSays ELSE {Peek.event.said}) :
          Happens(Peek.event.by, [by |-> Asked, said |-> said, result |-> 0],
                  "plain", world, TRUE)
    BY DEF ServeLLM
  <1> DEFINE event == [by |-> Asked, said |-> said, result |-> 0]
  <1>5. event \in Event
    <2>1. said \in Said
      BY <1>3, <1>4, StepParts DEF Said
    <2> QED BY <1>1, <2>1 DEF Event, Said
  <1>6. event.by = Asked /\ event.said = said /\ event.result = 0 /\ event.by # "tool"
    BY <1>1 DEF LLMActors
  <1>7. ~AtFork \/ job.iv = "noop" => event.said = Peek.event.said
    BY <1>4, <1>6
  <1>8. cursor' = IF Governed THEN cursor + 1 ELSE cursor
    BY <1>1 DEF ServeLLM
  <1>9. Taken(event, "plain", world, TRUE)
    BY <1>1, <1>3, <1>4, <1>5, <1>6, <1>8, Happened
  <1>10. Turn(event, "plain", world)
    BY <1>6 DEF Turn
  <1>11. Heard(event, "plain", world, TRUE)
    BY <1>2, <1>3, <1>6, <1>7 DEF Heard
  <1>12. Moved(event, world, TRUE)
    BY <1>1, <1>6 DEF Moved
  <1>13. "plain" \in Prompts
    BY DEF Prompts
  <1> HIDE DEF event
  <1> QED BY <1>1, <1>5, <1>9, <1>10, <1>11, <1>12, <1>13 DEF Fits

(* Only an actor who has said something can be followed by a tool.         *)
LEMMA ToolFollows ==
  ASSUME TypeOK, Asked = "tool"
  PROVE  hist # <<>> /\ Last(hist) \in Event /\ Last(hist).said \in Said
  <1>1. hist # <<>>
    BY DEF Asked, NextActor
  <1>2. hist \in Seq(Event) /\ Len(hist) \in 1..Len(hist)
    BY <1>1 DEF TypeOK
  <1>3. Last(hist) \in Event
    BY <1>2 DEF Last
  <1> QED BY <1>1, <1>3 DEF Event, Said

(* What a tool answers is a natural number.                                *)
LEMMA AnswersType ==
  ASSUME NEW tool, NEW w \in Nat, NEW r \in Answers(tool, w)
  PROVE  r \in Nat
  <1>1. Effect(tool, w) \in Nat
    BY EffectType
  <1> QED BY <1>1 DEF Answers, Wrong

(* Where it is not flaky, it answers the truth.                            *)
LEMMA AnswersTruth ==
  ASSUME NEW tool, NEW w, NEW r \in Answers(tool, w), ~job.hook
  PROVE  r = Effect(tool, w)
  BY DEF Answers

(* The event of a tool call.                                               *)
LEMMA ToolEventParts ==
  ASSUME TypeOK, Asked = "tool", NEW result \in Nat
  PROVE  /\ ToolEvent(result) \in Event
         /\ ToolEvent(result).by = "tool"
         /\ ToolEvent(result).said = Last(hist).said
         /\ ToolEvent(result).result = result
  <1>1. Last(hist).said \in Said
    BY ToolFollows
  <1> QED BY <1>1 DEF ToolEvent, Event, Said

(* A live tool call.                                                       *)
LEMMA LiveToolFits ==
  ASSUME TapeInv, LiveTool
  PROVE  \E event, prompt, w, tape : Fits(event, prompt, w, tape)
  <1>1. TypeOK /\ Running /\ ~Governed /\ Asked = "tool" /\ world \in Nat
    BY DEF LiveTool, TapeInv, TypeOK
  <1> DEFINE w == Effect(Last(hist).said, world)
  <1>2. PICK result \in Answers(Last(hist).said, world) :
          Happens("tool", ToolEvent(result), "plain", w, FALSE)
    BY DEF LiveTool
  <1>3. result \in Nat /\ w \in Nat
    BY <1>1, <1>2, AnswersType, EffectType
  <1> DEFINE event == ToolEvent(result)
  <1>4. /\ event \in Event /\ event.by = "tool"
        /\ event.said = Last(hist).said /\ event.result = result
    BY <1>1, <1>3, ToolEventParts
  <1>5. cursor' = IF Governed THEN cursor + 1 ELSE cursor
    BY <1>1 DEF LiveTool
  <1>6. Taken(event, "plain", w, FALSE)
    BY <1>1, <1>2, <1>4, <1>5, Happened
  <1>7. Turn(event, "plain", w)
    BY <1>1, <1>4, ToolFollows DEF Turn
  <1>8. Heard(event, "plain", w, FALSE)
    BY <1>1 DEF Heard
  <1>9. Moved(event, w, FALSE)
    BY <1>4 DEF Moved
  <1>10. "plain" \in Prompts
    BY DEF Prompts
  <1> HIDE DEF event, w
  <1> QED BY <1>3, <1>4, <1>6, <1>7, <1>8, <1>9, <1>10 DEF Fits

(* A tool step served from the tape, or run again.                         *)
LEMMA TapeToolFits ==
  ASSUME TapeInv, TapeTool
  PROVE  \E event, prompt, w, tape : Fits(event, prompt, w, tape)
  <1>1. TypeOK /\ Running /\ Governed /\ Asked = "tool" /\ world \in Nat
    BY DEF TapeTool, TapeInv, TypeOK
  <1>2. /\ cursor < Len(Parent) /\ Peek.event.by = "tool"
        /\ Peek.event.said = Last(hist).said
    BY DEF TapeTool, ToolMatches
  <1>3. /\ Peek \in Step /\ Peek.event.result \in Nat
        /\ Peek.after \in Nat /\ Peek.before \in Nat
    BY <1>1, <1>2, PeekFacts, StepParts
  <1>4. PICK got \in Obtained :
          /\ Agrees(got)
          /\ \E shown \in Intervened(got) :
               Happens("tool", ToolEvent(shown.result), "plain", shown.world, TRUE)
    BY DEF TapeTool
  <1>5. PICK shown \in Intervened(got) :
          Happens("tool", ToolEvent(shown.result), "plain", shown.world, TRUE)
    BY <1>4
  <1>6. /\ got.result \in Nat /\ got.world \in Nat
        /\ got = [result |-> got.result, world |-> got.world]
        /\ job.mode = "snapshot" => got.result = Peek.event.result /\ got.world = Peek.after
        /\ job.mode # "snapshot" => got.world = Effect(Peek.event.said, world)
        /\ job.mode # "snapshot" /\ ~job.hook => got.result = Effect(Peek.event.said, world)
    <2>1. CASE job.mode = "snapshot"
      BY <1>3, <1>4, <2>1 DEF Obtained
    <2>2. CASE job.mode # "snapshot"
      <3>1. PICK r \in Answers(Peek.event.said, world) :
              got = [result |-> r, world |-> Effect(Peek.event.said, world)]
        BY <1>4, <2>2 DEF Obtained
      <3>2. r \in Nat /\ Effect(Peek.event.said, world) \in Nat
        BY <1>1, <3>1, AnswersType, EffectType
      <3>3. ~job.hook => r = Effect(Peek.event.said, world)
        BY <3>1, AnswersTruth
      <3> QED BY <2>2, <3>1, <3>2, <3>3
    <2> QED BY <2>1, <2>2
  <1>7. /\ shown.result \in Nat /\ shown.world \in Nat
        /\ ~GoesLive => shown.world = got.world
        /\ ~AtFork \/ job.iv = "noop" => shown = got
    <2>1. CASE GoesLive
      <3>1. PICK r \in Answers(Peek.event.said, got.world) :
              shown = [result |-> r, world |-> Effect(Peek.event.said, got.world)]
        <4>1. Intervened(got) =
                {[result |-> r, world |-> Effect(Peek.event.said, got.world)] :
                   r \in Answers(Peek.event.said, got.world)}
          <5>1. job.iv # "replace" /\ job.iv # "truth"
            BY <2>1 DEF GoesLive
          <5> QED BY <2>1, <5>1 DEF Intervened
        <4> QED BY <1>5, <4>1
      <3>2. r \in Nat /\ Effect(Peek.event.said, got.world) \in Nat
        BY <1>6, <3>1, AnswersType, EffectType
      <3>3. AtFork /\ job.iv # "noop"
        BY <2>1 DEF GoesLive
      <3> QED BY <2>1, <3>1, <3>2, <3>3
    <2>2. CASE ~GoesLive /\ AtFork /\ job.iv = "replace"
      <3>1. shown \in {got, [got EXCEPT !.result = Wrong]}
        BY <1>5, <2>2 DEF Intervened
      <3> QED BY <1>6, <2>2, <3>1 DEF Wrong
    <2>3. CASE ~GoesLive /\ AtFork /\ job.iv = "truth"
      <3>1. shown = [got EXCEPT !.result = Effect(Peek.event.said, Peek.before)]
        BY <1>5, <2>3 DEF Intervened
      <3>2. Effect(Peek.event.said, Peek.before) \in Nat
        BY <1>3, EffectType
      <3> QED BY <1>6, <2>3, <3>1, <3>2
    <2>4. CASE ~GoesLive /\ ~(AtFork /\ job.iv \in {"replace", "truth"})
      <3>1. shown = got
        BY <1>5, <2>4 DEF Intervened
      <3> QED BY <1>6, <2>4, <3>1
    <2> QED BY <2>1, <2>2, <2>3, <2>4
  <1> DEFINE event == ToolEvent(shown.result)
  <1>8. /\ event \in Event /\ event.by = "tool"
        /\ event.said = Last(hist).said /\ event.result = shown.result
    BY <1>1, <1>7, ToolEventParts
  <1>9. cursor' = IF Governed THEN cursor + 1 ELSE cursor
    BY <1>1 DEF TapeTool
  <1>10. Taken(event, "plain", shown.world, TRUE)
    BY <1>1, <1>5, <1>8, <1>9, Happened
  <1>11. Turn(event, "plain", shown.world)
    BY <1>1, <1>8, ToolFollows DEF Turn
  <1>12. Heard(event, "plain", shown.world, TRUE)
    <2>1. job.mode = "verify" => got.result = Peek.event.result /\ got.world = Peek.after
      BY <1>4 DEF Agrees
    <2> HIDE DEF event
    <2> QED BY <1>2, <1>6, <1>7, <1>8, <2>1 DEF Heard
  <1>13. Moved(event, shown.world, TRUE)
    <2>1. CASE GoesLive
      BY <1>1, <2>1 DEF GoesLive, Moved
    <2>2. CASE ~GoesLive /\ job.mode = "snapshot"
      BY <1>1, <1>2, <1>6, <1>7, <1>8, <2>2 DEF Moved
    <2>3. CASE ~GoesLive /\ job.mode # "snapshot"
      BY <1>1, <1>2, <1>6, <1>7, <1>8, <2>3 DEF Moved
    <2> QED BY <2>1, <2>2, <2>3
  <1>14. "plain" \in Prompts
    BY DEF Prompts
  <1> HIDE DEF event
  <1> QED BY <1>7, <1>8, <1>10, <1>11, <1>12, <1>13, <1>14 DEF Fits

-----------------------------------------------------------------------------
(***************************************************************************)
(* What a step leaves.                                                     *)
(***************************************************************************)
(* Events are equal that say the same.                                     *)
LEMMA SameEvent ==
  ASSUME NEW e \in Event, NEW f \in Event,
         e.by = f.by, e.said = f.said, e.result = f.result
  PROVE  e = f
  BY DEF Event

(* The new row is a row.                                                   *)
LEMMA NewRowType ==
  ASSUME TypeOK, NEW event, NEW prompt, NEW w, NEW tape, Fits(event, prompt, w, tape)
  PROVE  /\ NewRow(event, prompt, w, tape) \in Step
         /\ NewRow(event, prompt, w, tape).event = event
         /\ NewRow(event, prompt, w, tape).asked = (IF event.by = "tool" THEN <<>> ELSE hist)
         /\ NewRow(event, prompt, w, tape).prompt = prompt
         /\ NewRow(event, prompt, w, tape).before = world
         /\ NewRow(event, prompt, w, tape).after = w
         /\ NewRow(event, prompt, w, tape).from_tape = tape
  <1>1. hist \in Seq(Event) /\ <<>> \in Seq(Event) /\ world \in Nat
    BY DEF TypeOK
  <1>2. event \in Event /\ prompt \in {"plain", "edited"} /\ w \in Nat /\ tape \in BOOLEAN
    BY DEF Fits, Prompts
  <1>3. (IF event.by = "tool" THEN <<>> ELSE hist) \in Seq(Event)
    BY <1>1
  <1> QED BY <1>1, <1>2, <1>3 DEF NewRow, Step

(* A step adds a row to the run in progress, and a replay none.            *)
LEMMA TapeGrows ==
  ASSUME TapeInv, NEW event, NEW prompt, NEW w, NEW tape, Fits(event, prompt, w, tape)
  PROVE  /\ runs' \in Seq(Run) /\ Len(runs') = Len(runs) /\ DOMAIN runs' = DOMAIN runs
         /\ job.kind = "replay" => runs' = runs
         /\ \A p \in DOMAIN runs : p # Len(runs) => runs'[p] = runs[p]
         /\ job.kind # "record" => runs'[job.parent] = runs[job.parent] /\ Parent' = Parent
         /\ job.kind # "replay" =>
              /\ Child' = Append(Child, NewRow(event, prompt, w, tape))
              /\ runs'[Len(runs)].steps = Append(Child, NewRow(event, prompt, w, tape))
              /\ runs'[Len(runs)].outcome = runs[Len(runs)].outcome
              /\ Len(runs) \in DOMAIN runs /\ Child \in Seq(Step)
  <1> DEFINE row == NewRow(event, prompt, w, tape)
  <1>1. TypeOK /\ JobOk /\ Running /\ job' = job /\ runs \in Seq(Run) /\ row \in Step
    BY NewRowType DEF TapeInv, Fits, Taken, TypeOK, Run
  <1>2. Len(runs) \in Nat /\ DOMAIN runs = 1..Len(runs)
    BY <1>1
  <1>3. CASE job.kind = "replay"
    <2>1. runs' = runs
      BY <1>3 DEF Fits, Taken, Recorded
    <2> QED BY <1>1, <1>3, <2>1 DEF Parent
  <1>4. CASE job.kind # "replay"
    <2>1. Len(runs) \in DOMAIN runs /\ Child \in Seq(Step)
      BY <1>1, <1>4, Parts
    <2>2. runs' = [runs EXCEPT ![Len(runs)].steps = Append(@, row)]
      BY <1>4 DEF Fits, Taken, Recorded
    <2> DEFINE new == [runs[Len(runs)] EXCEPT !.steps = Append(@, row)]
    <2>3. runs' = [runs EXCEPT ![Len(runs)] = new]
      BY <2>2
    <2>4. runs[Len(runs)] \in Run
      BY <1>1, <2>1
    <2>5. /\ new.steps = Append(Child, row)
          /\ new.outcome = runs[Len(runs)].outcome
      BY <2>4 DEF Run, Child
    <2>6. Append(Child, row) \in Seq(Step)
      BY <1>1, <2>1
    <2>7. new \in Run
      BY <2>4, <2>5, <2>6 DEF Run
    <2> HIDE DEF new
    <2>8. /\ runs' \in Seq(Run) /\ Len(runs') = Len(runs) /\ DOMAIN runs' = DOMAIN runs
          /\ \A p \in DOMAIN runs : p # Len(runs) => runs'[p] = runs[p]
          /\ runs'[Len(runs)] = new
      BY <1>1, <2>1, <2>3, <2>7
    <2>9. job.kind # "record" => job.parent \in DOMAIN runs /\ job.parent # Len(runs)
      BY <1>1, <1>2, <1>4, Parts DEF JobOk, Forking
    <2>10. job.kind # "record" => runs'[job.parent] = runs[job.parent] /\ Parent' = Parent
      BY <1>1, <2>8, <2>9 DEF Parent
    <2> QED BY <1>4, <2>1, <2>5, <2>8, <2>10 DEF Child
  <1> QED BY <1>3, <1>4

(* Where the run stands when it takes a step.                              *)
LEMMA Place ==
  ASSUME TapeInv, NEW event, NEW prompt, NEW w, NEW tape, Fits(event, prompt, w, tape)
  PROVE  /\ hist \in Seq(Event) /\ Len(hist) = events /\ events \in Nat /\ cursor \in Nat
         /\ world \in Nat /\ job.step \in Nat
         /\ job.kind # "replay" => Len(Child) = events
         /\ Governed => cursor = events /\ cursor < Len(Parent) /\ Peek = Parent[events + 1]
         /\ Forking => cursor = IF events <= job.step THEN events ELSE job.step + 1
         /\ AtFork <=> Forking /\ events = job.step
         /\ Governed <=> job.kind = "replay" \/ (Forking /\ events <= job.step)
  <1>1. Running /\ TypeOK /\ JobOk /\ LockStep
    BY DEF Fits, Taken, TapeInv
  <1>2. hist \in Seq(Event) /\ events \in Nat /\ cursor \in Nat /\ world \in Nat
    BY <1>1 DEF TypeOK
  <1>3. job.step \in Nat
    BY <1>1, Parts
  <1>4. Governed => cursor < Len(Parent)
    BY DEF Fits, Heard
  <1>5. Governed => cursor = events
    BY <1>1, <1>4, PeekFacts
  <1> QED BY <1>1, <1>2, <1>3, <1>4, <1>5 DEF LockStep, AtFork, Governed, Forking, Peek

(* The three counters advance together.                                    *)
LEMMA LockStepKept ==
  ASSUME TapeInv, NEW event, NEW prompt, NEW w, NEW tape, Fits(event, prompt, w, tape)
  PROVE  TypeOK' /\ JobOk' /\ LockStep'
  <1>1. /\ Running /\ hist' = Append(hist, event) /\ world' = w /\ events' = events + 1
        /\ cursor' = (IF Governed THEN cursor + 1 ELSE cursor)
        /\ job' = job /\ verdict' = verdict /\ event \in Event /\ w \in Nat
    BY DEF Fits, Taken
  <1>2. /\ hist \in Seq(Event) /\ Len(hist) = events /\ events \in Nat /\ cursor \in Nat
        /\ job.step \in Nat
        /\ job.kind # "replay" => Len(Child) = events
        /\ Governed => cursor = events /\ cursor < Len(Parent)
        /\ Forking => cursor = IF events <= job.step THEN events ELSE job.step + 1
        /\ Governed <=> job.kind = "replay" \/ (Forking /\ events <= job.step)
    BY Place
  <1>3. TypeOK'
    <2>1. hist' \in Seq(Event) /\ events' \in Nat /\ cursor' \in Nat
      BY <1>1, <1>2
    <2>2. runs' \in Seq([steps : Seq(Step), outcome : {0, 1, NoOutcome}])
      BY TapeGrows DEF Run
    <2>3. job \in Job /\ verdict \in {"running", "ended", "verified", "diverged", "aborted"}
      BY DEF TapeInv, TypeOK
    <2> QED BY <1>1, <2>1, <2>2, <2>3 DEF TypeOK
  <1>4. JobOk'
    <2>1. /\ Len(runs') = Len(runs) /\ DOMAIN runs' = DOMAIN runs
          /\ job.kind # "record" => Parent' = Parent
          /\ job.kind # "replay" =>
               /\ runs'[Len(runs)].outcome = runs[Len(runs)].outcome
               /\ Len(runs) \in DOMAIN runs
      BY TapeGrows
    <2>2. runs' \in Seq(Run)
      BY TapeGrows
    <2>3. JobOk
      BY DEF TapeInv
    <2>4. Forking' = Forking /\ Running' = Running
      BY <1>1 DEF Forking, Running
    <2>5. Len(runs) \in DOMAIN runs => runs' # <<>>
      BY <2>1, <2>2
    <2> QED BY <1>1, <2>1, <2>3, <2>4, <2>5 DEF JobOk, Forking
  <1>5. LockStep'
    <2>1. Forking' = Forking /\ Running' = Running
      BY <1>1 DEF Forking, Running
    <2>2. events' = Len(hist')
      BY <1>1, <1>2
    <2>3. job.kind # "replay" => Len(Child') = events + 1
      <3>1. ASSUME job.kind # "replay"
            PROVE  Len(Child') = Len(Child) + 1
        <4>1. Child' = Append(Child, NewRow(event, prompt, w, tape)) /\ Child \in Seq(Step)
          BY <3>1, TapeGrows
        <4> QED BY <4>1
      <3> QED BY <1>2, <3>1
    <2>4. job.kind = "replay" => cursor' = events + 1
      BY <1>1, <1>2
    <2>5. Forking => cursor' = IF events + 1 <= job.step THEN events + 1 ELSE job.step + 1
      <3>1. CASE Forking /\ events <= job.step
        BY <1>1, <1>2, <3>1
      <3>2. CASE Forking /\ ~(events <= job.step)
        BY <1>1, <1>2, <3>2 DEF Forking
      <3> QED BY <3>1, <3>2
    <2> QED BY <1>1, <2>1, <2>2, <2>3, <2>4, <2>5 DEF LockStep
  <1> QED BY <1>3, <1>4, <1>5

(* The new row is right about the rows above it.                           *)
LEMMA RowsKept ==
  ASSUME TapeInv, NEW event, NEW prompt, NEW w, NEW tape, Fits(event, prompt, w, tape)
  PROVE  RowsOk' /\ Lived'
  <1> DEFINE row == NewRow(event, prompt, w, tape)
  <1>1. /\ Running /\ hist' = Append(hist, event) /\ world' = w
        /\ job' = job /\ event \in Event /\ TypeOK
    BY DEF Fits, Taken, TapeInv
  <1>2. Turn(event, prompt, w)
    BY DEF Fits
  <1>3. /\ row \in Step /\ row.event = event /\ row.prompt = prompt
        /\ row.asked = (IF event.by = "tool" THEN <<>> ELSE hist)
        /\ row.before = world /\ row.after = w
    BY <1>1, NewRowType
  <1>4. CASE job.kind = "replay"
    <2>1. runs' = runs
      BY <1>4, TapeGrows
    <2> QED BY <1>1, <1>4, <2>1, Zenon DEF RowsOk, Lived, TapeInv
  <1>5. CASE job.kind # "replay"
    <2> DEFINE n == Len(Child)
               t == Append(Child, row)
    <2>1. /\ DOMAIN runs' = DOMAIN runs /\ Len(runs) \in DOMAIN runs /\ Child \in Seq(Step)
          /\ \A p \in DOMAIN runs : p # Len(runs) => runs'[p] = runs[p]
          /\ runs'[Len(runs)].steps = t /\ Child' = t
      BY <1>5, TapeGrows
    <2>2. n \in Nat /\ n \in 0..n /\ t \in Seq(Step) /\ Len(t) = n + 1 /\ t[n + 1] = row
      BY <1>3, <2>1
    <2>3. hist = Before(Child, n) /\ world = WorldAt(Child, n) /\ RowsOk
      BY <1>1, <1>5 DEF TapeInv, Lived
    <2>4. Before(t, n) = hist /\ WorldAt(t, n) = world
      BY <1>3, <2>1, <2>2, <2>3, BeforeAppend, WorldAppend
    <2>5. RowOk(t, n + 1)
      <3>1. ASSUME event.by = "tool"
            PROVE  n > 0 /\ event.said = t[n].event.said
        <4>1. hist # <<>> /\ event.said = Last(hist).said
          BY <1>2, <3>1 DEF Turn
        <4>2. Len(hist) = n /\ hist \in Seq(Event)
          BY <1>1, <2>1, <2>2, <2>3, BeforeType
        <4>3. n > 0 /\ n \in 1..n
          BY <4>1, <4>2
        <4>4. Last(hist) = t[n].event
          BY <2>4, <4>2, <4>3, Zenon DEF Last, Before
        <4> QED BY <4>1, <4>3, <4>4
      <3>2. /\ t[n + 1].event.by = NextActor(Before(t, n))
            /\ t[n + 1].before = WorldAt(t, n)
            /\ t[n + 1].asked = (IF t[n + 1].event.by = "tool" THEN <<>> ELSE Before(t, n))
            /\ t[n + 1].event.by = "tool" =>
                 n > 0 /\ t[n + 1].event.said = t[n].event.said /\ t[n + 1].prompt = "plain"
            /\ t[n + 1].event.by # "tool" =>
                 t[n + 1].event.result = 0 /\ t[n + 1].after = t[n + 1].before
        <4> HIDE DEF row, t, n
        <4> QED BY <1>2, <1>3, <2>2, <2>4, <3>1 DEF Turn, Asked
      <3> HIDE DEF row, t, n
      <3> QED BY <2>2, <3>2, RowAfter
    <2>6. ASSUME NEW i \in DOMAIN t
          PROVE  RowOk(t, i)
      <3>1. i \in 1..n \/ i = n + 1
        BY <2>2
      <3>2. ASSUME i \in 1..n
            PROVE  RowOk(t, i)
        <4>1. RowOk(Child, i)
          BY <2>1, <2>3, <3>2 DEF RowsOk, Child
        <4> QED BY <1>3, <2>1, <3>2, <4>1, RowKept
      <3> QED BY <2>5, <3>1, <3>2
    <2>7. RowsOk'
      <3>1. ASSUME NEW p \in DOMAIN runs', NEW i \in DOMAIN runs'[p].steps
            PROVE  RowOk(runs'[p].steps, i)
        <4>1. CASE p = Len(runs)
          BY <2>1, <2>6, <3>1, <4>1
        <4>2. CASE p # Len(runs)
          BY <2>1, <2>3, <3>1, <4>2 DEF RowsOk
        <4> QED BY <4>1, <4>2
      <3> QED BY <3>1 DEF RowsOk, RowOk, Before, WorldAt, NextActor, Last
    <2>8. Lived'
      <3>1. Before(t, n + 1) = Append(Before(t, n), event)
        <4>1. n \in 0..(Len(t) - 1) /\ t[n + 1].event = event
          BY <1>3, <2>2
        <4> HIDE DEF n, t, row
        <4>2. Before(t, n + 1) = Append(Before(t, n), t[n + 1].event)
          BY <2>2, <4>1, BeforeNext
        <4> QED BY <4>1, <4>2
      <3>2. WorldAt(t, n + 1) = w
        BY <1>3, <2>2 DEF WorldAt
      <3>3. hist' = Before(t, n + 1) /\ world' = WorldAt(t, n + 1)
        BY <1>1, <2>4, <3>1, <3>2
      <3>4. Child' = t /\ Len(t) = n + 1
        BY <2>1, <2>2
      <3>5. hist' = Before(Child', Len(Child')) /\ world' = WorldAt(Child', Len(Child'))
        BY <3>3, <3>4, Zenon
      <3> HIDE DEF n, t, row
      <3> QED BY <3>5, Zenon DEF Lived, Before, WorldAt
    <2> QED BY <2>7, <2>8
  <1> QED BY <1>4, <1>5

(* What the tape hands on, it hands on unchanged: a step below the fork,   *)
(* where the tools answer as they did, is the parent's.                    *)
LEMMA HeardExactly ==
  ASSUME TapeInv, NEW event, NEW prompt, NEW w, NEW tape, Fits(event, prompt, w, tape),
         Governed, Exactly, ~AtFork \/ (job.iv = "noop" /\ job.mode = "snapshot")
  PROVE  event = Peek.event /\ w = Peek.after /\ world = Peek.before
  <1>1. /\ Running /\ event \in Event /\ Turn(event, prompt, w) /\ w \in Nat
        /\ Heard(event, prompt, w, tape) /\ Moved(event, w, tape)
    BY DEF Fits, Taken
  <1>2. /\ cursor < Len(Parent) /\ event.by = Peek.event.by
        /\ tape /\ prompt = "plain" /\ event.said = Peek.event.said
        /\ job.mode = "snapshot" => event.result = Peek.event.result
        /\ event.by = "tool" /\ job.mode = "snapshot" => w = Peek.after
        /\ event.by = "tool" /\ job.mode = "verify" =>
             event.result = Peek.event.result /\ w = Peek.after
        /\ event.by = "tool" /\ job.mode = "rerun_live" /\ ~job.hook =>
             event.result = Effect(event.said, world)
    BY <1>1 DEF Heard
  <1>3. /\ cursor = events /\ Peek \in Step /\ Peek.before = WorldAt(Parent, cursor)
        /\ cursor + 1 \in DOMAIN Parent
        /\ Peek.event.by # "tool" => Peek.event.result = 0 /\ Peek.after = Peek.before
    <2>1. cursor + 1 \in 1..Len(Parent) /\ Parent \in Seq(Step)
      BY <1>1, <1>2, PeekFacts, Parts DEF TapeInv, Governed
    <2> QED BY <1>1, <1>2, <2>1, PeekFacts
  <1>4. world = Peek.before
    BY <1>1, <1>3 DEF TapeInv, FollowsExactly
  <1>5. event.result = Peek.event.result /\ w = Peek.after
    <2>1. CASE event.by # "tool"
      BY <1>1, <1>2, <1>3, <1>4, <2>1 DEF Turn
    <2>2. CASE event.by = "tool" /\ job.mode # "rerun_live"
      <3>1. job.mode \in {"verify", "snapshot"}
        BY <2>2, Parts DEF TapeInv
      <3> QED BY <1>2, <2>2, <3>1
    <2>3. CASE event.by = "tool" /\ job.mode = "rerun_live"
      <3>1. ~job.hook /\ Honest(runs[job.parent]) /\ ~AtFork
        BY <2>3 DEF Exactly, TapeInv, JobOk
      <3>2. event.result = Effect(event.said, world)
        BY <1>2, <2>3, <3>1
      <3>3. w = Effect(event.said, world)
        BY <1>1, <2>3, <3>1 DEF Moved
      <3>4. Peek.event.result = Peek.after /\ Peek.after = Effect(Peek.event.said, Peek.before)
        <4>1. runs[job.parent].steps = Parent /\ Peek.event.by = "tool" /\ Peek = Parent[cursor + 1]
          BY <1>2, <2>3 DEF Parent, Peek
        <4> QED BY <1>3, <3>1, <4>1 DEF Honest, Explained
      <3> QED BY <1>2, <1>4, <3>2, <3>3, <3>4
    <2> QED BY <2>1, <2>2, <2>3
  <1>6. Peek.event \in Event
    BY <1>3, StepParts
  <1> QED BY <1>1, <1>2, <1>4, <1>5, <1>6, SameEvent

(* A run that is served stays on its parent's tape.                        *)
LEMMA FollowsKept ==
  ASSUME TapeInv, NEW event, NEW prompt, NEW w, NEW tape, Fits(event, prompt, w, tape)
  PROVE  Follows' /\ FollowsExactly'
  <1>1. /\ Running /\ hist' = Append(hist, event) /\ world' = w /\ events' = events + 1
        /\ job' = job /\ verdict' = verdict /\ event \in Event
        /\ Heard(event, prompt, w, tape)
    BY DEF Fits, Taken
  <1>2. /\ hist \in Seq(Event) /\ Len(hist) = events /\ events \in Nat /\ job.step \in Nat
        /\ AtFork <=> Forking /\ events = job.step
        /\ Governed <=> job.kind = "replay" \/ (Forking /\ events <= job.step)
    BY Place
  <1>3. Governed' => Governed /\ ~AtFork /\ job.kind # "record"
    BY <1>1, <1>2 DEF Governed, AtFork, Forking
  <1>4. SUFFICES ASSUME Governed' PROVE Follows' /\ FollowsExactly'
    BY DEF Follows, FollowsExactly
  <1>5. /\ Governed /\ ~AtFork /\ Parent' = Parent
        /\ runs'[job.parent] = runs[job.parent] /\ Parent \in Seq(Step)
    BY <1>3, <1>4, TapeGrows, Parts DEF TapeInv
  <1>6. /\ cursor = events /\ events < Len(Parent) /\ Peek = Parent[events + 1]
        /\ event.by = Peek.event.by /\ event.said = Peek.event.said
    <2>1. event.by = Peek.event.by /\ event.said = Peek.event.said
      BY <1>1, <1>5 DEF Heard
    <2> QED BY <1>5, <2>1, Place
  <1>7. Follows'
    <2>1. events + 1 <= Len(Parent)
      BY <1>2, <1>5, <1>6
    <2>2. ASSUME NEW i \in 1..(events + 1)
          PROVE  hist'[i].by = Parent[i].event.by /\ hist'[i].said = Parent[i].event.said
      <3>1. CASE i = events + 1
        BY <1>1, <1>2, <1>6, <3>1
      <3>2. CASE i # events + 1
        <4>1. i \in 1..events /\ hist'[i] = hist[i]
          BY <1>1, <1>2, <3>2
        <4> QED BY <1>1, <1>5, <4>1 DEF TapeInv, Follows
      <3> QED BY <3>1, <3>2
    <2> QED BY <1>1, <1>5, <2>1, <2>2 DEF Follows
  <1>8. FollowsExactly'
    <2>1. SUFFICES ASSUME Exactly
                   PROVE  hist' = Before(Parent, events + 1) /\ world' = WorldAt(Parent, events + 1)
      <3>1. Exactly' = Exactly
        BY <1>1, <1>5 DEF Exactly, Honest, Explained, Effect
      <3>2. Before(Parent, events + 1) = Before(Parent', events')
        BY <1>1, <1>5
      <3>3. WorldAt(Parent, events + 1) = WorldAt(Parent', events')
        BY <1>1, <1>5
      <3> QED BY <3>1, <3>2, <3>3, Zenon DEF FollowsExactly, Before, WorldAt
    <2>2. event = Peek.event /\ w = Peek.after
      BY <1>5, <2>1, HeardExactly
    <2>3. hist = Before(Parent, events)
      BY <1>1, <1>5, <2>1 DEF TapeInv, FollowsExactly
    <2>4. Before(Parent, events + 1) = Append(Before(Parent, events), Parent[events + 1].event)
      BY <1>2, <1>5, <1>6, BeforeNext
    <2>5. WorldAt(Parent, events + 1) = Peek.after
      BY <1>2, <1>6 DEF WorldAt
    <2> QED BY <1>1, <1>6, <2>2, <2>3, <2>4, <2>5
  <1> QED BY <1>7, <1>8

(* A fork stays its parent.                                                *)
LEMMA PrefixKept ==
  ASSUME TapeInv, NEW event, NEW prompt, NEW w, NEW tape, Fits(event, prompt, w, tape)
  PROVE  PrefixIsTheParents'
  <1> DEFINE row == NewRow(event, prompt, w, tape)
             n == events + 1
  <1>1. /\ Running /\ job' = job /\ event \in Event /\ TypeOK /\ PrefixIsTheParents
        /\ Heard(event, prompt, w, tape) /\ Moved(event, w, tape) /\ Turn(event, prompt, w)
    BY DEF Fits, Taken, TapeInv
  <1>2. Forking' = Forking
    BY <1>1 DEF Forking
  <1>3. SUFFICES ASSUME Forking PROVE PrefixIsTheParents'
    BY <1>2 DEF PrefixIsTheParents
  <1>4. /\ Child \in Seq(Step) /\ Child' = Append(Child, row) /\ Parent' = Parent
    BY <1>3, TapeGrows DEF Forking
  <1>5. /\ row \in Step /\ row.event = event /\ row.prompt = prompt
        /\ row.asked = (IF event.by = "tool" THEN <<>> ELSE hist)
        /\ row.before = world /\ row.after = w /\ row.from_tape = tape
    BY <1>1, NewRowType
  <1>6. /\ Len(Child) = events /\ events \in Nat /\ job.step \in Nat
        /\ Governed => Peek = Parent[n] /\ cursor < Len(Parent)
        /\ AtFork <=> events = job.step
        /\ Governed <=> events <= job.step
    BY <1>3, Place DEF Forking
  <1>7. DOMAIN Child' = 1..n /\ Child'[n] = row /\ \A i \in 1..events : Child'[i] = Child[i]
    BY <1>4, <1>5, <1>6
  <1>8. ASSUME Governed
        PROVE  /\ event.by = Peek.event.by
               /\ ~job.unsafe => row.asked = Peek.asked
               /\ ~job.unsafe /\ job.mode = "snapshot" /\ (~AtFork \/ job.iv = "noop") =>
                    row = Unmarked(Peek)
    <2>1. /\ Peek \in Step
          /\ Peek.event.by = "tool" => Peek.asked = <<>> /\ Peek.prompt = "plain"
      BY <1>1, <1>6, <1>8, PeekFacts
    <2>2. /\ event.by = Peek.event.by
          /\ ~job.unsafe /\ event.by # "tool" => Peek.asked = hist /\ Peek.prompt = "plain"
          /\ ~AtFork \/ job.iv = "noop" => tape = TRUE /\ prompt = "plain"
      <3>1. tape \in BOOLEAN
        BY DEF Fits
      <3> QED BY <1>1, <1>8, <3>1 DEF Heard
    <2>3. ~job.unsafe => row.asked = Peek.asked
      BY <1>5, <2>1, <2>2
    <2>4. ASSUME ~job.unsafe, job.mode = "snapshot", ~AtFork \/ job.iv = "noop"
          PROVE  row = Unmarked(Peek)
      <3>1. Exactly
        BY <2>4 DEF Exactly
      <3>2. event = Peek.event /\ w = Peek.after /\ world = Peek.before
        BY <1>8, <2>4, <3>1, HeardExactly
      <3>3. /\ row.event = Peek.event /\ row.asked = Peek.asked /\ row.prompt = Peek.prompt
            /\ row.before = Peek.before /\ row.after = Peek.after /\ row.from_tape = TRUE
        BY <1>5, <2>1, <2>2, <2>3, <2>4, <3>2
      <3> HIDE DEF row
      <3> QED BY <1>5, <2>1, <3>3 DEF Step, Unmarked
    <2> QED BY <2>2, <2>3, <2>4
  <1>9. ASSUME ~job.unsafe, NEW i \in 1..n, i <= job.step + 1
        PROVE  /\ Child'[i].asked = Parent[i].asked
               /\ Child'[i].event.by = Parent[i].event.by
               /\ job.mode = "snapshot" /\ (i <= job.step \/ job.iv = "noop") =>
                    Child'[i] = Unmarked(Parent[i])
    <2>1. CASE i = n
      <3>1. Governed /\ Peek = Parent[n] /\ (i <= job.step => ~AtFork)
        BY <1>6, <1>9, <2>1
      <3> HIDE DEF row, n
      <3> QED BY <1>5, <1>7, <1>8, <1>9, <2>1, <3>1
    <2>2. CASE i # n
      <3>1. i \in 1..events /\ i \in DOMAIN Child
        BY <1>4, <1>6, <2>2
      <3>2. Child'[i] = Child[i]
        BY <1>7, <3>1
      <3> HIDE DEF row, n
      <3> QED BY <1>1, <1>3, <1>9, <3>1, <3>2 DEF PrefixIsTheParents
    <2> QED BY <2>1, <2>2
  <1>10. ASSUME NEW i \in 1..n
         PROVE  /\ i <= job.step => Child'[i].from_tape
                /\ i > job.step + 1 => ~Child'[i].from_tape
    <2>1. CASE i = n
      <3>1. i <= job.step => Governed /\ ~AtFork
        BY <1>6, <2>1
      <3>2. i > job.step + 1 => ~Governed
        BY <1>6, <2>1
      <3>3. Governed /\ ~AtFork => tape
        BY <1>1 DEF Heard
      <3>4. ~Governed => ~tape
        BY <1>1 DEF Moved
      <3> HIDE DEF row, n
      <3> QED BY <1>5, <1>7, <2>1, <3>1, <3>2, <3>3, <3>4
    <2>2. CASE i # n
      <3>1. i \in 1..events /\ i \in DOMAIN Child
        BY <1>4, <1>6, <2>2
      <3>2. Child'[i] = Child[i]
        BY <1>7, <3>1
      <3> HIDE DEF row, n
      <3> QED BY <1>1, <1>3, <3>1, <3>2 DEF PrefixIsTheParents
    <2> QED BY <2>1, <2>2
  <1> HIDE DEF row, n
  <1> QED BY <1>1, <1>2, <1>4, <1>7, <1>9, <1>10 DEF PrefixIsTheParents, Unmarked

(* A new tool row acted on its world, or the exception says why not.       *)
LEMMA ToolsKept ==
  ASSUME TapeInv, NEW event, NEW prompt, NEW w, NEW tape, Fits(event, prompt, w, tape)
  PROVE  ToolsActOnTheirBefore'
  <1> DEFINE row == NewRow(event, prompt, w, tape)
             n == events + 1
  <1>1. /\ Running /\ job' = job /\ event \in Event /\ TypeOK /\ ToolsActOnTheirBefore
        /\ Heard(event, prompt, w, tape) /\ Moved(event, w, tape)
    BY DEF Fits, Taken, TapeInv
  <1>2. SUFFICES ASSUME job.kind # "replay" PROVE ToolsActOnTheirBefore'
    BY <1>1 DEF ToolsActOnTheirBefore
  <1>3. /\ Child \in Seq(Step) /\ Child' = Append(Child, row)
        /\ Forking => Parent' = Parent
    BY <1>2, TapeGrows DEF Forking
  <1>4. row \in Step /\ row.event = event /\ row.before = world /\ row.after = w
    BY <1>1, NewRowType
  <1>5. /\ Len(Child) = events /\ events \in Nat /\ job.step \in Nat
        /\ Governed => Peek = Parent[n] /\ cursor < Len(Parent)
        /\ AtFork <=> Forking /\ events = job.step
        /\ Governed <=> Forking /\ events <= job.step
    BY <1>2, Place
  <1>6. DOMAIN Child' = 1..n /\ Child'[n] = row /\ \A i \in 1..events : Child'[i] = Child[i]
    BY <1>3, <1>4, <1>5
  <1>7. ASSUME NEW i \in 1..n, ~Explained(Child'[i])
        PROVE  \/ Forking /\ i = job.step + 1 /\ job.iv \in {"resample", "edit"}
               \/ Forking /\ i <= job.step + 1 /\ ~Explained(Parent[i])
    <2>1. CASE i = n
      <3>1. event.by = "tool" /\ w # Effect(event.said, world)
        BY <1>4, <1>6, <1>7, <2>1 DEF Explained
      <3>2. CASE AtFork /\ job.iv \in {"resample", "edit"}
        BY <1>5, <2>1, <3>2
      <3>3. CASE /\ Governed /\ job.mode # "rerun_live"
                 /\ event.said = Peek.event.said /\ w = Peek.after
        <4>1. Forking /\ i <= job.step + 1 /\ Peek = Parent[i] /\ cursor < Len(Parent)
          BY <1>5, <2>1, <3>3
        <4>2. Exactly
          BY <3>3, <4>1, Parts DEF Exactly, TapeInv, JobOk
        <4>3. Peek.before = WorldAt(Parent, cursor) /\ cursor = events
          BY <1>1, <3>3, <4>1, PeekFacts
        <4>4. world = Peek.before
          BY <1>1, <3>3, <4>2, <4>3 DEF TapeInv, FollowsExactly
        <4>5. Peek.event.by = "tool"
          BY <1>1, <3>1, <3>3 DEF Heard
        <4>6. ~Explained(Peek)
          BY <3>1, <3>3, <4>4, <4>5 DEF Explained
        <4> QED BY <4>1, <4>6
      <3> QED BY <1>1, <3>1, <3>2, <3>3 DEF Moved
    <2>2. CASE i # n
      <3>1. i \in 1..events /\ i \in DOMAIN Child
        BY <1>3, <1>5, <2>2
      <3>2. Child'[i] = Child[i]
        BY <1>6, <3>1
      <3> HIDE DEF row, n
      <3> QED BY <1>1, <1>2, <1>7, <3>1, <3>2 DEF ToolsActOnTheirBefore
    <2> QED BY <2>1, <2>2
  <1> HIDE DEF row, n
  <1>8. Forking' = Forking
    BY <1>1 DEF Forking
  <1>9. ASSUME NEW i \in DOMAIN Child', ~Explained(Child'[i])
        PROVE  \/ Forking' /\ i = job'.step + 1 /\ job'.iv \in {"resample", "edit"}
               \/ Forking' /\ i <= job'.step + 1 /\ ~Explained(Parent'[i])
    <2>1. i \in 1..n
      BY <1>6, <1>9
    <2>2. Parent' = Parent \/ ~Forking
      BY <1>3
    <2>3. CASE Forking /\ i = job.step + 1 /\ job.iv \in {"resample", "edit"}
      BY <1>1, <1>8, <2>3
    <2>4. CASE Forking /\ i <= job.step + 1 /\ ~Explained(Parent[i])
      BY <1>1, <1>8, <2>2, <2>4
    <2> QED BY <1>7, <1>9, <2>1, <2>3, <2>4, Zenon
  <1> QED BY <1>9 DEF ToolsActOnTheirBefore, Explained, Effect

(* Nothing is scored by a step.                                            *)
LEMMA VerdictsKept ==
  ASSUME TapeInv, NEW event, NEW prompt, NEW w, NEW tape, Fits(event, prompt, w, tape)
  PROVE  VerdictsAreEarned' /\ NoFalseDivergence'
  <1>1. Running /\ verdict' = verdict /\ VerdictsAreEarned /\ JobOk
    BY DEF Fits, Taken, TapeInv
  <1>2. verdict' = "running"
    BY <1>1 DEF Running
  <1>3. ASSUME NEW r \in DOMAIN runs', runs'[r].outcome # NoOutcome
        PROVE  /\ NextActor(Trajectory(runs'[r])) = "none"
               /\ runs'[r].outcome = Reward(Trajectory(runs'[r]))
    <2>1. /\ DOMAIN runs' = DOMAIN runs
          /\ job.kind = "replay" => runs' = runs
          /\ r # Len(runs) => runs'[r] = runs[r]
          /\ job.kind # "replay" => runs'[Len(runs)].outcome = runs[Len(runs)].outcome
      BY <1>3, TapeGrows
    <2>2. job.kind # "replay" => r # Len(runs)
      BY <1>1, <1>3, <2>1 DEF JobOk
    <2>3. runs'[r] = runs[r] /\ r \in DOMAIN runs
      BY <1>3, <2>1, <2>2
    <2> QED BY <1>1, <1>3, <2>3 DEF VerdictsAreEarned
  <1>4. VerdictsAreEarned'
    BY <1>2, <1>3 DEF VerdictsAreEarned, NextActor, Trajectory, Reward, Last
  <1> QED BY <1>2, <1>4 DEF NoFalseDivergence

-----------------------------------------------------------------------------
(***************************************************************************)
(* How a session begins and ends.                                          *)
(***************************************************************************)
(* A tape that is not written to keeps its rows and its scores.            *)
LEMMA TapeKept ==
  ASSUME RowsOk, VerdictsAreEarned, UNCHANGED runs
  PROVE  /\ RowsOk'
         /\ verdict' # "verified" => VerdictsAreEarned'
         /\ UNCHANGED <<job, hist, world, verdict>> => VerdictsAreEarned'
  <1>1. ASSUME NEW p \in DOMAIN runs', NEW i \in DOMAIN runs'[p].steps
        PROVE  RowOk(runs'[p].steps, i)
    BY <1>1 DEF RowsOk
  <1>2. RowsOk'
    BY <1>1 DEF RowsOk, RowOk, Before, WorldAt, NextActor, Last
  <1>3. ASSUME NEW r \in DOMAIN runs', runs'[r].outcome # NoOutcome
        PROVE  /\ NextActor(Trajectory(runs'[r])) = "none"
               /\ runs'[r].outcome = Reward(Trajectory(runs'[r]))
    BY <1>3 DEF VerdictsAreEarned
  <1>4. verdict' # "verified" => VerdictsAreEarned'
    BY <1>3 DEF VerdictsAreEarned, NextActor, Trajectory, Reward, Last
  <1>5. ASSUME UNCHANGED <<job, hist, world, verdict>>, verdict = "verified"
        PROVE  VerdictsAreEarned'
    <2>1. Parent' = Parent
      BY <1>5 DEF Parent
    <2>2. /\ Len(hist) = Len(Parent)
          /\ \A i \in DOMAIN hist : hist[i].said = Parent[i].event.said
                                 /\ hist[i].result = Parent[i].event.result
          /\ runs[job.parent].outcome = Reward(hist)
          /\ job.mode = "verify" => world = (IF Parent = <<>> THEN 0 ELSE Last(Parent).after)
      BY <1>5 DEF VerdictsAreEarned
    <2> QED BY <1>3, <1>5, <2>1, <2>2 DEF VerdictsAreEarned, NextActor, Trajectory, Reward, Last
  <1> QED BY <1>2, <1>4, <1>5

(* A session begins on a tape that is right, with one more run or none.    *)
LEMMA BeginKept ==
  ASSUME TapeInv, NEW j \in Job, Begins(j),
         \/ j.kind = "replay" /\ UNCHANGED runs
         \/ j.kind # "replay" /\ NewRun,
         j.kind # "record" => j.parent \in DOMAIN runs,
         j.kind = "fork" => j.step < Len(runs[j.parent].steps) /\ j.mode # "verify",
         j.unsafe => j.kind = "fork" /\ j.mode = "rerun_live",
         j.kind = "replay" => ~j.hook /\ j.mode # "rerun_live"
  PROVE  TapeInv'
  <1>1. /\ job' = j /\ hist' = <<>> /\ world' = 0 /\ cursor' = 0 /\ events' = 0
        /\ verdict' = "running"
    BY DEF Begins
  <1>2. /\ runs \in Seq(Run) /\ RowsOk /\ VerdictsAreEarned
        /\ \A p \in DOMAIN runs : runs[p] \in Run /\ runs[p].steps \in Seq(Step)
        /\ DOMAIN runs = 1..Len(runs) /\ Len(runs) \in Nat
    BY Parts DEF TapeInv, TypeOK, Run
  <1> DEFINE new == [steps |-> <<>>, outcome |-> NoOutcome]
  <1>3. new \in Run /\ new.steps = <<>> /\ new.outcome = NoOutcome
    BY DEF Run
  <1>4. j.kind # "replay" => runs' = Append(runs, new)
    BY DEF NewRun
  <1> HIDE DEF new
  <1>5. /\ runs' \in Seq(Run) /\ DOMAIN runs \subseteq DOMAIN runs'
        /\ \A p \in DOMAIN runs : runs'[p] = runs[p]
        /\ \A p \in DOMAIN runs' : p \in DOMAIN runs \/ runs'[p] = new
    <2>1. CASE runs' = runs
      BY <1>2, <2>1
    <2>2. CASE runs' = Append(runs, new)
      <3>1. Append(runs, new) \in Seq(Run) /\ DOMAIN Append(runs, new) = 1..(Len(runs) + 1)
        BY <1>2, <1>3
      <3>2. /\ \A p \in DOMAIN runs : Append(runs, new)[p] = runs[p]
            /\ Append(runs, new)[Len(runs) + 1] = new
        BY <1>2, <1>3
      <3>3. \A p \in 1..(Len(runs) + 1) : p \in 1..Len(runs) \/ p = Len(runs) + 1
        BY <1>2
      <3>4. /\ runs' \in Seq(Run) /\ DOMAIN runs' = 1..(Len(runs) + 1)
            /\ \A p \in DOMAIN runs : runs'[p] = runs[p]
            /\ runs'[Len(runs) + 1] = new
        BY <2>2, <3>1, <3>2, Zenon
      <3>5. DOMAIN runs \subseteq DOMAIN runs'
        BY <1>2, <3>4
      <3>6. \A p \in DOMAIN runs' : p \in DOMAIN runs \/ runs'[p] = new
        BY <1>2, <3>3, <3>4, Zenon
      <3> QED BY <3>4, <3>5, <3>6
    <2> QED BY <1>4, <2>1, <2>2
  <1>6. j.kind # "replay" => /\ Len(runs') = Len(runs) + 1 /\ runs' # <<>>
                             /\ runs'[Len(runs')] = new
    BY <1>2, <1>3, <1>4
  <1>7. /\ j.step \in Nat /\ j.parent \in Nat
        /\ j.mode \in {"verify", "snapshot", "rerun_live"}
    BY DEF Job
  <1>8. /\ j.kind # "record" => Parent' = runs[j.parent].steps /\ j.parent \in DOMAIN runs'
        /\ j.kind # "replay" => Child' = <<>>
        /\ Running' /\ (Forking' <=> j.kind = "fork")
    BY <1>1, <1>3, <1>5, <1>6 DEF Parent, Child, Running, Forking
  <1>9. TypeOK'
    <2>1. hist' \in Seq(Event)
      BY <1>1
    <2> QED BY <1>1, <1>5, <2>1 DEF TypeOK, Run
  <1>10. JobOk'
    BY <1>1, <1>2, <1>3, <1>6, <1>8 DEF JobOk
  <1>11. LockStep'
    BY <1>1, <1>7, <1>8 DEF LockStep
  <1>12. RowsOk'
    <2>1. ASSUME NEW p \in DOMAIN runs', NEW i \in DOMAIN runs'[p].steps
          PROVE  RowOk(runs'[p].steps, i)
      <3>1. CASE p \in DOMAIN runs
        BY <1>2, <1>5, <2>1, <3>1 DEF RowsOk
      <3>2. CASE runs'[p] = new
        BY <1>3, <2>1, <3>2
      <3> QED BY <1>5, <2>1, <3>1, <3>2
    <2> QED BY <2>1 DEF RowsOk, RowOk, Before, WorldAt, NextActor, Last
  <1>13. Lived'
    <2>1. \A s : Before(s, 0) = <<>> /\ WorldAt(s, 0) = 0
      BY DEF Before, WorldAt
    <2>2. j.kind # "replay" => Len(Child') = 0
      BY <1>8
    <2>3. j.kind # "replay" =>
            hist' = Before(Child', Len(Child')) /\ world' = WorldAt(Child', Len(Child'))
      BY <1>1, <2>1, <2>2
    <2> QED BY <1>1, <2>3 DEF Lived, Before, WorldAt
  <1>14. Follows'
    <2>1. CASE j.kind = "record"
      BY <1>1, <2>1 DEF Follows, Governed
    <2>2. CASE j.kind # "record"
      <3>1. Parent' \in Seq(Step)
        BY <1>2, <1>8, <2>2
      <3>2. Len(Parent') >= 0
        BY <3>1
      <3> QED BY <1>1, <3>2 DEF Follows
    <2> QED BY <2>1, <2>2
  <1>15. FollowsExactly'
    <2>1. \A s : Before(s, 0) = <<>> /\ WorldAt(s, 0) = 0
      BY DEF Before, WorldAt
    <2>2. hist' = Before(Parent', events') /\ world' = WorldAt(Parent', events')
      BY <1>1, <2>1
    <2> QED BY <2>2, Zenon DEF FollowsExactly, Before, WorldAt
  <1>16. PrefixIsTheParents' /\ ToolsActOnTheirBefore'
    <2>1. j.kind # "replay" => DOMAIN Child' = {}
      BY <1>8
    <2>2. Forking' => DOMAIN Child' = {}
      BY <1>8, <2>1
    <2> QED BY <1>1, <2>1, <2>2 DEF PrefixIsTheParents, ToolsActOnTheirBefore
  <1>17. VerdictsAreEarned'
    <2>1. ASSUME NEW r \in DOMAIN runs', runs'[r].outcome # NoOutcome
          PROVE  /\ NextActor(Trajectory(runs'[r])) = "none"
                 /\ runs'[r].outcome = Reward(Trajectory(runs'[r]))
      <3>1. r \in DOMAIN runs /\ runs'[r] = runs[r]
        BY <1>3, <1>5, <2>1
      <3> QED BY <1>2, <2>1, <3>1 DEF VerdictsAreEarned
    <2> QED BY <1>1, <2>1 DEF VerdictsAreEarned, NextActor, Trajectory, Reward, Last
  <1>18. NoFalseDivergence'
    BY <1>1 DEF NoFalseDivergence
  <1> QED BY <1>9, <1>10, <1>11, <1>12, <1>13, <1>14, <1>15, <1>16, <1>17, <1>18 DEF TapeInv

(* Recordings, replays and forks begin so.                                 *)
LEMMA StartKept ==
  ASSUME TapeInv, Start
  PROVE  TapeInv'
  <1>1. NoJob \in Job /\ Hooks \subseteq BOOLEAN
    BY DEF NoJob, Job
  <1>2. runs \in Seq(Run) /\ DOMAIN runs \subseteq Nat
    BY DEF TapeInv, TypeOK, Run
  <1>3. CASE \E hook \in Hooks : StartRecord(hook)
    <2>1. PICK hook \in Hooks : StartRecord(hook)
      BY <1>3
    <2> DEFINE j == [NoJob EXCEPT !.hook = hook]
    <2>2. j \in Job /\ j.kind = "record" /\ ~j.unsafe
      BY <1>1 DEF NoJob, Job
    <2>3. Begins(j) /\ NewRun
      BY <2>1 DEF StartRecord
    <2> HIDE DEF j
    <2> QED BY <2>2, <2>3, BeginKept
  <1>4. CASE \E p \in DOMAIN runs, mode \in {"verify", "snapshot"} : StartReplay(p, mode)
    <2>1. PICK p \in DOMAIN runs, mode \in {"verify", "snapshot"} : StartReplay(p, mode)
      BY <1>4
    <2> DEFINE j == [NoJob EXCEPT !.kind = "replay", !.parent = p, !.mode = mode]
    <2>2. /\ j \in Job /\ j.kind = "replay" /\ ~j.unsafe /\ ~j.hook
          /\ j.mode # "rerun_live" /\ j.parent = p
      BY <1>1, <1>2, <2>1 DEF NoJob, Job
    <2>3. Begins(j) /\ UNCHANGED runs
      BY <2>1 DEF StartReplay
    <2> HIDE DEF j
    <2> QED BY <2>2, <2>3, BeginKept
  <1>5. CASE \E p \in DOMAIN runs : \E step \in 0..(Len(runs[p].steps) - 1),
               mode \in {"snapshot", "rerun_live"},
               iv \in Kinds, hook \in Hooks, unsafe \in BOOLEAN :
              StartFork(p, step, mode, iv, hook, unsafe)
    <2>1. PICK p \in DOMAIN runs : \E step \in 0..(Len(runs[p].steps) - 1),
               mode \in {"snapshot", "rerun_live"},
               iv \in Kinds, hook \in Hooks, unsafe \in BOOLEAN :
              StartFork(p, step, mode, iv, hook, unsafe)
      BY <1>5
    <2>2. PICK step \in 0..(Len(runs[p].steps) - 1),
               mode \in {"snapshot", "rerun_live"},
               iv \in Kinds, hook \in Hooks, unsafe \in BOOLEAN :
              StartFork(p, step, mode, iv, hook, unsafe)
      BY <2>1
    <2> DEFINE j == [kind |-> "fork", parent |-> p, step |-> step, mode |-> mode,
                     iv |-> iv, hook |-> hook, unsafe |-> unsafe]
    <2>3. step \in Nat /\ p \in Nat /\ hook \in BOOLEAN /\ iv \in Kinds \union {"noop"}
      BY <1>1, <1>2, <2>1, <2>2
    <2>4. j \in Job
      BY <2>2, <2>3 DEF Job
    <2>5. /\ j.kind = "fork" /\ j.parent = p /\ j.step = step /\ j.mode = mode
          /\ j.unsafe = unsafe
      OBVIOUS
    <2>6. /\ Begins(j) /\ NewRun /\ step < Len(runs[p].steps)
          /\ mode \in {"snapshot", "rerun_live"} /\ (unsafe => mode = "rerun_live")
      BY <2>2 DEF StartFork
    <2> HIDE DEF j
    <2> QED BY <2>1, <2>4, <2>5, <2>6, BeginKept
  <1> QED BY <1>3, <1>4, <1>5 DEF Start

(* What an ended session can no longer break.                              *)
LEMMA EndKept ==
  ASSUME TapeInv, Running, verdict' \in {"ended", "verified", "diverged"},
         UNCHANGED <<job, hist, world, cursor, events>>,
         runs' \in Seq(Run), Len(runs') = Len(runs),
         \A p \in DOMAIN runs : runs'[p].steps = runs[p].steps
  PROVE  /\ TypeOK' /\ JobOk' /\ LockStep' /\ RowsOk'
         /\ Lived' /\ Follows' /\ FollowsExactly'
         /\ PrefixIsTheParents' /\ ToolsActOnTheirBefore'
  <1>1. ~Running' /\ Forking' = Forking
    BY DEF Running, Forking
  <1>2. TypeOK /\ JobOk /\ RowsOk /\ PrefixIsTheParents /\ runs \in Seq(Run)
    BY DEF TapeInv, TypeOK, Run
  <1>3. DOMAIN runs' = DOMAIN runs
    BY <1>2
  <1>4. job.kind # "record" => job.parent \in DOMAIN runs /\ Parent' = Parent
    BY <1>2 DEF JobOk, Parent
  <1>5. Forking => Child' = Child
    BY <1>2, Parts DEF Child, Forking
  <1>6. TypeOK'
    BY <1>2 DEF TypeOK, Run
  <1>7. JobOk'
    BY <1>1, <1>2, <1>3, <1>4 DEF JobOk, Forking
  <1>8. RowsOk'
    <2>1. ASSUME NEW p \in DOMAIN runs', NEW i \in DOMAIN runs'[p].steps
          PROVE  RowOk(runs'[p].steps, i)
      BY <1>2, <1>3, <2>1 DEF RowsOk
    <2> QED BY <2>1 DEF RowsOk, RowOk, Before, WorldAt, NextActor, Last
  <1>9. PrefixIsTheParents'
    BY <1>1, <1>2, <1>4, <1>5 DEF PrefixIsTheParents, Unmarked, Forking
  <1>10. LockStep' /\ Lived' /\ Follows' /\ FollowsExactly' /\ ToolsActOnTheirBefore'
    BY <1>1 DEF LockStep, Lived, Follows, FollowsExactly, ToolsActOnTheirBefore
  <1> QED BY <1>6, <1>7, <1>8, <1>9, <1>10

(* The trajectory of a run is the answers of all its rows.                 *)
LEMMA TrajectoryIsBefore ==
  ASSUME NEW run \in Run
  PROVE  Trajectory(run) = Before(run.steps, Len(run.steps))
  <1>1. run.steps \in Seq(Step)
    BY DEF Run
  <1>2. DOMAIN run.steps = 1..Len(run.steps)
    BY <1>1
  <1> QED BY <1>2 DEF Trajectory, Before

(* A run that is driven to its end is scored for what it lived.            *)
LEMMA FinishRunKept ==
  ASSUME TapeInv, FinishRun
  PROVE  TapeInv'
  <1>1. /\ Running /\ Asked = "none" /\ job.kind # "replay" /\ verdict' = "ended"
        /\ UNCHANGED <<job, hist, world, cursor, events>>
        /\ runs' = [runs EXCEPT ![Len(runs)].outcome = Reward(hist)]
    BY DEF FinishRun, Ends
  <1>2. /\ TypeOK /\ JobOk /\ VerdictsAreEarned /\ runs \in Seq(Run)
        /\ Len(runs) \in DOMAIN runs /\ Child \in Seq(Step) /\ Lived
    BY <1>1, Parts DEF TapeInv, TypeOK, Run
  <1> DEFINE new == [runs[Len(runs)] EXCEPT !.outcome = Reward(hist)]
  <1>3. runs' = [runs EXCEPT ![Len(runs)] = new]
    BY <1>1
  <1>4. runs[Len(runs)] \in Run
    BY <1>2
  <1>5. Reward(hist) \in {0, 1}
    BY DEF Reward
  <1>6. new \in Run /\ new.steps = Child /\ new.outcome = Reward(hist)
    BY <1>4, <1>5 DEF Run, Child
  <1> HIDE DEF new
  <1>7. /\ runs' \in Seq(Run) /\ Len(runs') = Len(runs) /\ DOMAIN runs' = DOMAIN runs
        /\ \A p \in DOMAIN runs : p # Len(runs) => runs'[p] = runs[p]
        /\ runs'[Len(runs)] = new
    BY <1>2, <1>3, <1>6
  <1>8. \A p \in DOMAIN runs : runs'[p].steps = runs[p].steps
    BY <1>6, <1>7 DEF Child
  <1>9. hist = Trajectory(new)
    <2>1. Trajectory(new) = Before(Child, Len(Child))
      BY <1>6, TrajectoryIsBefore
    <2> QED BY <1>1, <1>2, <2>1 DEF Lived
  <1>10. VerdictsAreEarned'
    <2>1. ASSUME NEW r \in DOMAIN runs', runs'[r].outcome # NoOutcome
          PROVE  /\ NextActor(Trajectory(runs'[r])) = "none"
                 /\ runs'[r].outcome = Reward(Trajectory(runs'[r]))
      <3>1. CASE r = Len(runs)
        BY <1>1, <1>6, <1>7, <1>9, <3>1 DEF Asked
      <3>2. CASE r # Len(runs)
        BY <1>2, <1>7, <2>1, <3>2 DEF VerdictsAreEarned
      <3> QED BY <3>1, <3>2
    <2> QED BY <1>1, <2>1 DEF VerdictsAreEarned, NextActor, Trajectory, Reward, Last
  <1>11. NoFalseDivergence'
    BY <1>1 DEF NoFalseDivergence
  <1>12. /\ TypeOK' /\ JobOk' /\ LockStep' /\ RowsOk'
         /\ Lived' /\ Follows' /\ FollowsExactly'
         /\ PrefixIsTheParents' /\ ToolsActOnTheirBefore'
    BY <1>1, <1>7, <1>8, EndKept
  <1> QED BY <1>10, <1>11, <1>12 DEF TapeInv

(* What a replay has lived when the orchestrator is done with it.          *)
LEMMA ReplayLived ==
  ASSUME TapeInv, Running, job.kind = "replay"
  PROVE  /\ cursor = events /\ Len(hist) = cursor /\ cursor \in 0..Len(Parent)
         /\ Parent \in Seq(Step) /\ job.parent \in DOMAIN runs
         /\ hist = Before(Parent, cursor) /\ world = WorldAt(Parent, cursor)
         /\ runs[job.parent].outcome # NoOutcome /\ cursor = Len(Parent) =>
              Asked = "none" /\ Reward(hist) = runs[job.parent].outcome
         /\ Asked = "none" => cursor = Len(Parent)
  <1>1. /\ Parent \in Seq(Step) /\ job.parent \in DOMAIN runs /\ runs[job.parent] \in Run
        /\ cursor \in Nat /\ events \in Nat
    BY Parts DEF TapeInv, TypeOK, JobOk
  <1>2. cursor = events /\ Len(hist) = cursor
    BY <1>1 DEF TapeInv, LockStep
  <1>3. Governed /\ Exactly
    BY DEF Governed, Exactly
  <1>4. cursor \in 0..Len(Parent)
    BY <1>1, <1>2, <1>3 DEF TapeInv, Follows
  <1>5. hist = Before(Parent, cursor) /\ world = WorldAt(Parent, cursor)
    BY <1>2, <1>3 DEF TapeInv, FollowsExactly
  <1>6. ASSUME runs[job.parent].outcome # NoOutcome, cursor = Len(Parent)
        PROVE  Asked = "none" /\ Reward(hist) = runs[job.parent].outcome
    <2>1. hist = Trajectory(runs[job.parent])
      BY <1>1, <1>5, <1>6, TrajectoryIsBefore DEF Parent
    <2> QED BY <1>1, <1>6, <2>1 DEF TapeInv, VerdictsAreEarned, Asked
  <1>7. ASSUME Asked = "none", cursor # Len(Parent)
        PROVE  FALSE
    <2>1. cursor < Len(Parent)
      BY <1>1, <1>4, <1>7
    <2>2. Peek \in Step /\ Peek.event.by = "none"
      BY <1>3, <1>7, <2>1, PeekFacts
    <2> QED BY <2>2, StepParts DEF LLMActors
  <1> QED BY <1>1, <1>2, <1>4, <1>5, <1>6, <1>7

(* A replay is verified for what it lived, and found wrong only if the     *)
(* recording was never finished.                                           *)
LEMMA FinishReplayKept ==
  ASSUME TapeInv, FinishReplay
  PROVE  TapeInv'
  <1>1. /\ Running /\ Asked = "none" /\ job.kind = "replay" /\ UNCHANGED runs
        /\ verdict' = (IF Reproduced THEN "verified" ELSE "diverged")
        /\ UNCHANGED <<job, hist, world, cursor, events>>
    BY DEF FinishReplay, Ends
  <1>2. /\ Len(hist) = cursor /\ cursor = Len(Parent) /\ Parent \in Seq(Step)
        /\ hist = Before(Parent, cursor) /\ world = WorldAt(Parent, cursor)
        /\ runs[job.parent].outcome # NoOutcome =>
             Reward(hist) = runs[job.parent].outcome
    BY <1>1, ReplayLived
  <1>3. runs \in Seq(Run) /\ VerdictsAreEarned
    BY DEF TapeInv, TypeOK, Run
  <1>4. /\ TypeOK' /\ JobOk' /\ LockStep' /\ RowsOk'
        /\ Lived' /\ Follows' /\ FollowsExactly'
        /\ PrefixIsTheParents' /\ ToolsActOnTheirBefore'
    BY <1>1, <1>3, EndKept
  <1>5. ASSUME verdict' = "verified"
        PROVE  /\ Len(hist) = Len(Parent)
               /\ \A i \in DOMAIN hist : hist[i].said = Parent[i].event.said
                                      /\ hist[i].result = Parent[i].event.result
               /\ runs[job.parent].outcome = Reward(hist)
               /\ world = (IF Parent = <<>> THEN 0 ELSE Last(Parent).after)
    <2>1. Reproduced
      BY <1>1, <1>5
    <2>2. \A i \in DOMAIN hist : hist[i] = Parent[i].event
      BY <1>2 DEF Before
    <2>3. world = (IF Parent = <<>> THEN 0 ELSE Last(Parent).after)
      BY <1>2 DEF WorldAt, Last
    <2> QED BY <1>2, <2>1, <2>2, <2>3 DEF Reproduced
  <1>6. VerdictsAreEarned'
    <2>1. Parent' = Parent
      BY <1>1 DEF Parent
    <2>2. ASSUME NEW r \in DOMAIN runs', runs'[r].outcome # NoOutcome
          PROVE  /\ NextActor(Trajectory(runs'[r])) = "none"
                 /\ runs'[r].outcome = Reward(Trajectory(runs'[r]))
      BY <1>1, <1>3, <2>2 DEF VerdictsAreEarned
    <2> QED BY <1>1, <1>5, <2>1, <2>2
        DEF VerdictsAreEarned, NextActor, Trajectory, Reward, Last
  <1>7. verdict' = "diverged" => runs[job.parent].outcome = NoOutcome
    BY <1>1, <1>2 DEF Reproduced
  <1>8. NoFalseDivergence'
    BY <1>1, <1>7 DEF NoFalseDivergence
  <1> QED BY <1>4, <1>6, <1>8 DEF TapeInv

(* What diverges was edited, never finished, asked for the wrong step, or  *)
(* run again on tools that answer differently.                             *)
LEMMA DivergeKept ==
  ASSUME TapeInv, Diverge
  PROVE  TapeInv'
  <1>1. /\ Running /\ Governed /\ Asked # "none" /\ UNCHANGED runs /\ verdict' = "diverged"
        /\ UNCHANGED <<job, hist, world, cursor, events>>
    BY DEF Diverge, Ends
  <1>2. runs \in Seq(Run) /\ VerdictsAreEarned /\ TypeOK /\ JobOk
    BY DEF TapeInv, TypeOK, Run
  <1>3. /\ TypeOK' /\ JobOk' /\ LockStep' /\ RowsOk'
        /\ Lived' /\ Follows' /\ FollowsExactly'
        /\ PrefixIsTheParents' /\ ToolsActOnTheirBefore'
    BY <1>1, <1>2, EndKept
  <1>4. VerdictsAreEarned'
    BY <1>1, <1>2, TapeKept DEF TapeInv
  <1> DEFINE from == runs[job.parent]
             Blamed == \/ Edited(from)
                       \/ job.kind = "replay" /\ from.outcome = NoOutcome
                       \/ Forking /\ ~Applies
                       \/ job.mode # "snapshot" /\ (job.hook \/ ~Honest(from))
  <1>5. ASSUME ~Blamed
        PROVE  FALSE
    <2>1. Exactly /\ (job.mode # "snapshot" => ~job.hook /\ Honest(from))
      BY <1>5 DEF Exactly
    <2>2. Parent \in Seq(Step) /\ cursor \in Nat /\ events \in Nat /\ job.step \in Nat
      BY <1>1, <1>2, Parts DEF Governed, TypeOK
    <2>3. cursor < Len(Parent)
      <3>1. CASE job.kind = "replay"
        BY <1>1, <1>5, <2>2, <3>1, ReplayLived
      <3>2. CASE job.kind # "replay"
        BY <1>1, <1>2, <2>2, <3>2 DEF Governed, JobOk, Forking, TapeInv, LockStep
      <3> QED BY <3>1, <3>2
    <2>4. Applies
      BY <1>5 DEF Applies, AtFork, Forking
    <2>5. /\ cursor = events /\ Peek \in Step /\ Peek.event.by = Asked
          /\ cursor + 1 \in DOMAIN Parent
          /\ Peek.asked = (IF Peek.event.by = "tool" THEN <<>> ELSE Before(Parent, cursor))
          /\ Peek.before = WorldAt(Parent, cursor)
          /\ Peek.event.by = "tool" => Peek.event.said = Last(hist).said
      <3>1. cursor + 1 \in DOMAIN Parent
        BY <2>2, <2>3
      <3> QED BY <1>1, <2>3, <3>1, PeekFacts
    <2>6. hist = Before(Parent, cursor) /\ world = Peek.before
      BY <1>1, <2>1, <2>5 DEF TapeInv, FollowsExactly
    <2>7. Peek.prompt = "plain"
      <3>1. Peek.prompt \in Prompts /\ Peek = from.steps[cursor + 1]
            /\ cursor + 1 \in DOMAIN from.steps
        BY <2>5, StepParts DEF Peek, Parent
      <3> QED BY <1>5, <3>1 DEF Edited, Prompts
    <2>8. CASE Asked \in LLMActors
      <3>1. LLMMatches
        BY <2>3, <2>5, <2>6, <2>7, <2>8 DEF LLMMatches, LLMActors
      <3> QED BY <2>4, <2>8, <3>1 DEF Diverge, LLMActors
    <2>9. CASE Asked = "tool"
      <3>1. ToolMatches
        BY <2>3, <2>5, <2>9 DEF ToolMatches
      <3>2. ASSUME NEW got \in Obtained
            PROVE  Agrees(got)
        <4>1. SUFFICES ASSUME job.mode = "verify" PROVE Agrees(got)
          BY DEF Agrees
        <4>2. PICK r \in Answers(Peek.event.said, world) :
                got = [result |-> r, world |-> Effect(Peek.event.said, world)]
          BY <3>2, <4>1 DEF Obtained
        <4>3. r = Effect(Peek.event.said, world)
          BY <2>1, <4>1, <4>2, AnswersTruth
        <4>4. Peek.event.result = Peek.after /\ Peek.after = Effect(Peek.event.said, Peek.before)
          <5>1. from.steps = Parent /\ Peek.event.by = "tool" /\ Peek = Parent[cursor + 1]
            BY <2>5, <2>9 DEF Parent, Peek
          <5> QED BY <2>1, <2>5, <4>1, <5>1 DEF Honest, Explained
        <4> QED BY <2>6, <4>2, <4>3, <4>4 DEF Agrees
      <3> QED BY <2>4, <2>9, <3>1, <3>2 DEF Diverge, LLMActors
    <2>10. Asked \in LLMActors \union {"tool"}
      BY <2>5, StepParts
    <2> QED BY <2>8, <2>9, <2>10
  <1>6. NoFalseDivergence'
    BY <1>1, <1>5 DEF NoFalseDivergence, Edited, Forking, Applies, AtFork, Peek, Parent,
                      Honest, Explained, Effect
  <1> QED BY <1>3, <1>4, <1>6 DEF TapeInv

(* A session cut short leaves its rows, which are right, and no outcome.   *)
LEMMA AbortKept ==
  ASSUME TapeInv, Abort
  PROVE  TapeInv'
  <1>1. /\ UNCHANGED runs /\ verdict' = "aborted" /\ job' = NoJob /\ hist' = <<>>
        /\ world' = 0 /\ cursor' = 0 /\ events' = 0
    BY DEF Abort
  <1>2. NoJob \in Job /\ NoJob.kind = "record" /\ ~NoJob.unsafe
    BY DEF NoJob, Job
  <1>3. ~Running' /\ ~Forking'
    BY <1>1, <1>2 DEF Running, Forking
  <1>4. TypeOK'
    <2>1. hist' \in Seq(Event)
      BY <1>1
    <2> QED BY <1>1, <1>2, <2>1 DEF TypeOK, TapeInv
  <1>5. JobOk'
    BY <1>1, <1>2, <1>3 DEF JobOk
  <1>6. RowsOk' /\ VerdictsAreEarned'
    BY <1>1, TapeKept DEF TapeInv
  <1>7. /\ LockStep' /\ Lived' /\ Follows' /\ FollowsExactly' /\ ToolsActOnTheirBefore'
        /\ PrefixIsTheParents'
    BY <1>3 DEF LockStep, Lived, Follows, FollowsExactly, ToolsActOnTheirBefore,
                PrefixIsTheParents
  <1>8. NoFalseDivergence'
    BY <1>1 DEF NoFalseDivergence
  <1> QED BY <1>4, <1>5, <1>6, <1>7, <1>8 DEF TapeInv

-----------------------------------------------------------------------------
(***************************************************************************)
(* The theorems.                                                           *)
(***************************************************************************)
(* An empty tape.                                                          *)
LEMMA TapeStart == Init => TapeInv
  <1> SUFFICES ASSUME Init PROVE TapeInv
    OBVIOUS
  <1>1. /\ runs = <<>> /\ job = NoJob /\ hist = <<>> /\ world = 0 /\ cursor = 0
        /\ events = 0 /\ verdict = "ended"
    BY DEF Init
  <1>2. NoJob \in Job /\ NoJob.kind = "record" /\ ~NoJob.unsafe
    BY DEF NoJob, Job
  <1>3. ~Running /\ ~Forking
    BY <1>1, <1>2 DEF Running, Forking
  <1>4. DOMAIN runs = {}
    BY <1>1
  <1>5. TypeOK
    <2>1. hist \in Seq(Event)
      BY <1>1
    <2>2. runs \in Seq([steps : Seq(Step), outcome : {0, 1, NoOutcome}])
      BY <1>1
    <2> QED BY <1>1, <1>2, <2>1, <2>2 DEF TypeOK
  <1>6. JobOk
    BY <1>1, <1>2, <1>3 DEF JobOk
  <1>7. RowsOk /\ VerdictsAreEarned
    BY <1>1, <1>4 DEF RowsOk, VerdictsAreEarned
  <1>8. /\ LockStep /\ Lived /\ Follows /\ FollowsExactly /\ ToolsActOnTheirBefore
        /\ PrefixIsTheParents
    BY <1>3 DEF LockStep, Lived, Follows, FollowsExactly, ToolsActOnTheirBefore,
                PrefixIsTheParents
  <1>9. NoFalseDivergence
    BY <1>1 DEF NoFalseDivergence
  <1> QED BY <1>5, <1>6, <1>7, <1>8, <1>9 DEF TapeInv

(* Every step keeps the invariant.                                         *)
LEMMA TapeStep == TapeInv /\ [Next]_vars => TapeInv'
  <1> SUFFICES ASSUME TapeInv, [Next]_vars PROVE TapeInv'
    OBVIOUS
  <1>1. ASSUME ServeLLM \/ LiveLLM \/ LiveTool \/ TapeTool
        PROVE  TapeInv'
    <2>1. PICK event, prompt, w, tape : Fits(event, prompt, w, tape)
      BY <1>1, ServeLLMFits, LiveLLMFits, LiveToolFits, TapeToolFits, Zenon
    <2> QED BY <2>1, LockStepKept, RowsKept, FollowsKept, PrefixKept, ToolsKept, VerdictsKept, Zenon
        DEF TapeInv
  <1>2. CASE UNCHANGED vars
    <2>1. UNCHANGED <<runs, job, hist, world, cursor, events, verdict>>
      BY <1>2 DEF vars
    <2>2. TypeOK' /\ JobOk' /\ LockStep' /\ Lived' /\ Follows' /\ FollowsExactly'
      <3>1. /\ Running' = Running /\ Forking' = Forking /\ Governed' = Governed
            /\ Parent' = Parent /\ Child' = Child
        BY <2>1 DEF Running, Forking, Governed, Parent, Child
      <3>2. TypeOK'
        BY <2>1 DEF TapeInv, TypeOK
      <3>3. JobOk' /\ LockStep'
        BY <2>1, <3>1 DEF TapeInv, JobOk, LockStep
      <3>4. Lived' /\ Follows'
        BY <2>1, <3>1 DEF TapeInv, Lived, Follows
      <3>5. Exactly' = Exactly
        BY <2>1 DEF Exactly, Honest, Explained, Effect
      <3>6. FollowsExactly'
        BY <2>1, <3>1, <3>5 DEF TapeInv, FollowsExactly
      <3> QED BY <3>2, <3>3, <3>4, <3>6
    <2>3. RowsOk' /\ VerdictsAreEarned'
      BY <2>1, TapeKept DEF TapeInv
    <2>4. PrefixIsTheParents' /\ ToolsActOnTheirBefore'
      <3>1. /\ Running' = Running /\ Forking' = Forking
            /\ Parent' = Parent /\ Child' = Child
        BY <2>1 DEF Running, Forking, Parent, Child
      <3>2. PrefixIsTheParents'
        BY <2>1, <3>1 DEF TapeInv, PrefixIsTheParents
      <3>3. ToolsActOnTheirBefore'
        BY <2>1, <3>1 DEF TapeInv, ToolsActOnTheirBefore
      <3> QED BY <3>2, <3>3
    <2>5. NoFalseDivergence'
      BY <2>1 DEF TapeInv, NoFalseDivergence, Edited, Forking, Applies, AtFork, Peek, Parent,
                  Honest, Explained, Effect
    <2> QED BY <2>2, <2>3, <2>4, <2>5 DEF TapeInv
  <1> QED BY <1>1, <1>2, StartKept, FinishRunKept, FinishReplayKept, DivergeKept, AbortKept
      DEF Next, Work

(* The invariant holds of every tape and every session.                    *)
THEOREM TapeInvariant == Spec => []TapeInv
  <1> QED BY TapeStart, TapeStep, PTL DEF Spec

(* The tape and the session keep their types.                              *)
THEOREM TapeTypes == Spec => []TypeOK
  <1>1. TapeInv => TypeOK
    BY DEF TapeInv
  <1> QED BY <1>1, TapeInvariant, PTL

(* A fork is its parent up to the fork step, and the replayer's count, the *)
(* history, the recorder's index and the cursor keep step (core/replay.py).*)
THEOREM TapeForkIsTheParent == Spec => []ForkIsTheParent
  <1>1. TapeInv => ForkIsTheParent
    BY DEF TapeInv, ForkIsTheParent
  <1> QED BY <1>1, TapeInvariant, PTL

(* Only what was lived to its end is scored or verified, and a recording   *)
(* does not diverge from itself (core/runner.py, check_replay_complete,    *)
(* check_same_outcome).                                                    *)
THEOREM TapeVerdictsAreTrue == Spec => []VerdictsAreTrue
  <1>1. TapeInv => VerdictsAreTrue
    BY DEF TapeInv, VerdictsAreTrue
  <1> QED BY <1>1, TapeInvariant, PTL

(* A tool acts on the world its row shows before it (adapters/tau2.py).    *)
THEOREM TapeToolsAct == Spec => []ToolsActOnTheirBefore
  <1>1. TapeInv => ToolsActOnTheirBefore
    BY DEF TapeInv
  <1> QED BY <1>1, TapeInvariant, PTL

HIDE ReplayAssumption

(***************************************************************************)
(* The process-wide seams.                                                 *)
(***************************************************************************)
USE SeamsAssumption

(* The threads that hold the dispatcher. *)
Holders ==
  {t \in Threads : /\ pc[t] \in {"installed", "ready", "called", "over", "unbound"}
                   /\ work[t] # "record"}

(* depth counts them. *)
Counted == IsFiniteSet(Holders) /\ depth = Cardinality(Holders)

(* A session decides which jobs run under it, and a recording installs     *)
(* nothing.                                                                *)
JobsFit ==
  \A t \in Threads : pc[t] # "idle" =>
    /\ work[t] = "replay" => session = "none"
    /\ work[t] = "record" => session = "collect" /\ pc[t] \in {"ready", "called", "over"}
    /\ pc[t] = "repointing" => session # "collect" /\ work[t] = "fork"

(* Who serves, what a call under way read, and who answered.               *)
Served ==
  /\ serving = {t \in Threads : pc[t] \in {"ready", "called", "over"} /\ work[t] # "record"}
  /\ \A t \in Threads : pc[t] = "called" =>
       target[t] \in IF work[t] = "record" THEN {"router", "dispatcher"} ELSE {"dispatcher"}

(* The forks that have read the judge one inside another: of any two one   *)
(* found the other there, and none found one that had yet to write.        *)
Nested ==
  /\ \A t \in Inside : outer[t] \subseteq Inside \ {t}
  /\ \A t, u \in Inside : t = u \/ t \in outer[u] \/ u \in outer[t]
  /\ \A t, u \in Inside : pc[u] = "repointing" => u \notin outer[t]

(* What each of them found, and what the attribute holds.                  *)
Repointed == {t \in Inside : pc[t] # "repointing"}

JudgeFits ==
  /\ \A t \in Inside : saved[t] = IF outer[t] = {} THEN "default" ELSE "chosen"
  /\ session # "collect" => judge = IF Repointed = {} THEN "default" ELSE "chosen"
  /\ session = "collect" => saved["main"] = "default"

Judging ==
  /\ session = "collect" => judge = "chosen"
  /\ ~crossed => Nested /\ JudgeFits /\ JudgedByChosen

SeamsInv ==
  /\ SeamsTypeOK /\ Counted /\ JobsFit /\ Served /\ Judging
  /\ SeamIsRestored /\ OwnVoice

-----------------------------------------------------------------------------
(* Before the first session tau2's attributes are its own and nobody       *)
(* replays.                                                                *)
LEMMA SeamsStart == SeamsInit => SeamsInv
  <1> SUFFICES ASSUME SeamsInit PROVE SeamsInv
    OBVIOUS
  <1>1. Holders = {}
    BY DEF SeamsInit, Holders
  <1>2. Counted
    BY <1>1, FS_EmptySet DEF SeamsInit, Counted
  <1>3. SeamsTypeOK
    BY DEF SeamsInit, SeamsTypeOK
  <1>4. JobsFit /\ Served /\ SeamIsRestored /\ OwnVoice
    BY DEF SeamsInit, JobsFit, Served, SeamIsRestored, Underneath, OwnVoice
  <1>5. Judging
    <2>1. Inside = {} /\ Repointed = {}
      BY DEF SeamsInit, Inside, Repointed
    <2> QED BY <2>1 DEF SeamsInit, Judging, Nested, JudgeFits, JudgedByChosen
  <1> QED BY <1>2, <1>3, <1>4, <1>5 DEF SeamsInv

(* A holder comes or goes, and depth with it. *)
LEMMA OneMoreHolder ==
  ASSUME Counted, NEW t, t \notin Holders, Holders' = Holders \cup {t}, depth' = depth + 1
  PROVE  Counted'
  BY FS_AddElement DEF Counted

(* A holder that leaves takes one from the depth.                          *)
LEMMA OneHolderLess ==
  ASSUME Counted, NEW t, t \in Holders, Holders' = Holders \ {t}, depth' = depth - 1
  PROVE  Counted'
  BY FS_RemoveElement DEF Counted

(* A step that changes no holder leaves the count right.                   *)
LEMMA SameHolders ==
  ASSUME Counted, Holders' = Holders, depth' = depth
  PROVE  Counted'
  BY DEF Counted

(* Somebody holds the dispatcher exactly while depth is not zero. *)
LEMMA DepthIsHolders ==
  ASSUME Counted
  PROVE  depth \in Nat /\ (depth = 0 <=> Holders = {})
         /\ \A t \in Holders : depth = 1 => Holders = {t}
  <1>1. depth \in Nat /\ (depth = 0 <=> Holders = {})
    BY FS_CardinalityType, FS_EmptySet DEF Counted
  <1>2. ASSUME NEW t \in Holders, depth = 1
        PROVE  Holders = {t}
    <2>1. IsFiniteSet(Holders \ {t}) /\ Cardinality(Holders \ {t}) = 0
      <3>1. /\ IsFiniteSet(Holders) /\ Cardinality(Holders) = 1
        BY <1>2 DEF Counted
      <3>2. /\ IsFiniteSet(Holders \ {t})
            /\ Cardinality(Holders \ {t}) = Cardinality(Holders) - 1
        BY <1>2, <3>1, FS_RemoveElement
      <3> QED BY <3>1, <3>2
    <2>2. Holders \ {t} = {}
      BY <2>1, FS_EmptySet
    <2> QED BY <2>2
  <1> QED BY <1>1, <1>2

(* When nobody replays, the depth is zero and no thread is served.         *)
LEMMA QuietHasNoHolders ==
  ASSUME SeamsInv, Quiet
  PROVE  Holders = {} /\ depth = 0 /\ serving = {}
  <1>1. Holders = {}
    BY DEF Quiet, Holders
  <1>2. serving = {}
    BY DEF SeamsInv, Served, Quiet
  <1> QED BY <1>1, <1>2, DepthIsHolders DEF SeamsInv

(***************************************************************************)
(* One lemma for each part of the invariant.                               *)
(***************************************************************************)
LEMMA TypesStep ==
  ASSUME SeamsInv, [SeamsNext]_seamsVars
  PROVE  SeamsTypeOK'
  <1> USE DEF SeamsTypeOK, Working, JobUnchanged, SeamsUnchanged, Goto
  <1>0. SeamsTypeOK /\ Counted
    BY DEF SeamsInv
  <1>1. ASSUME NEW kind \in Sessions, OpenSession(kind)
        PROVE  SeamsTypeOK'
    BY <1>0, <1>1 DEF OpenSession
  <1>2. CASE CloseSession
    BY <1>0, <1>2 DEF CloseSession
  <1>3. ASSUME NEW t \in Threads, BeginReplay(t) \/ BeginRecord(t)
        PROVE  SeamsTypeOK'
    BY <1>0, <1>3 DEF BeginReplay, BeginRecord, Begin
  <1>11. ASSUME NEW t \in Threads, BeginFork(t)
         PROVE  SeamsTypeOK'
    <2>1. crossed' \in BOOLEAN
      BY <1>0, <1>11, ZenonT(30) DEF BeginFork
    <2>2. /\ pc' \in [Threads -> Working \union {"idle"}]
          /\ saved' \in [Threads \union {"main"} -> {"default", "chosen"}]
          /\ outer' \in [Threads -> SUBSET Threads]
      <3>1. Inside \in SUBSET Threads
        BY DEF Inside
      <3>2. CASE session # "collect"
        BY <1>0, <1>11, <3>1, <3>2 DEF BeginFork
      <3>3. CASE session = "collect"
        BY <1>0, <1>11, <3>3 DEF BeginFork
      <3> QED BY <3>2, <3>3
    <2>3. /\ work' \in [Threads -> {"fork", "record", "replay"}] /\ jobs' \in Nat
          /\ heard' \in [Threads -> Threads \union {"unasked", "litellm", "router", "nobody"}]
          /\ judged' \in [Threads -> {"unasked", "default", "chosen"}]
          /\ UNCHANGED <<session, completion, fallback, depth, serving, judge, target>>
      BY <1>0, <1>11 DEF BeginFork, Begin
    <2> QED BY <1>0, <2>1, <2>2, <2>3
  <1>4. ASSUME NEW t \in Threads, Install(t) \/ Bind(t)
        PROVE  SeamsTypeOK'
    <2>1. depth = 0 => completion \in {"litellm", "router"}
      BY DEF SeamsInv, SeamIsRestored, Underneath
    <2> QED BY <1>0, <1>4, <2>1 DEF Install, Bind
  <1>5. ASSUME NEW t \in Threads, Call(t) \/ Evaluate(t) \/ Unjudged(t) \/ EndRecord(t)
        PROVE  SeamsTypeOK'
    BY <1>0, <1>5 DEF Call, Evaluate, Unjudged, EndRecord
  <1>6. ASSUME NEW t \in Threads, Route(t)
        PROVE  SeamsTypeOK'
    BY <1>0, <1>6 DEF Route, Answerer
  <1>7. ASSUME NEW t \in Threads, Unbind(t)
        PROVE  SeamsTypeOK'
    BY <1>0, <1>7 DEF Unbind
  <1>8. ASSUME NEW t \in Threads, Uninstall(t)
        PROVE  SeamsTypeOK'
    <2>1. t \in Holders
      BY <1>8 DEF Uninstall, SeamsInv, JobsFit, Holders
    <2>2. depth > 0 /\ depth \in Nat
      BY <1>0, <2>1, DepthIsHolders
    <2>3. depth = 1 => fallback \in {"litellm", "router"}
      BY DEF SeamsInv, SeamIsRestored, Underneath
    <2> QED BY <1>0, <1>8, <2>2, <2>3 DEF Uninstall
  <1>9. ASSUME NEW t \in Threads, Repoint(t)
        PROVE  SeamsTypeOK'
    BY <1>0, <1>9 DEF Repoint
  <1>12. ASSUME NEW t \in Threads, EndFork(t)
         PROVE  SeamsTypeOK'
    <2>1. crossed' \in BOOLEAN
      BY <1>0, <1>12, ZenonT(30) DEF EndFork, Leave
    <2>2. judge' \in {"default", "chosen"} /\ outer' \in [Threads -> SUBSET Threads]
      BY <1>0, <1>12 DEF EndFork, Leave
    <2>3. /\ pc' \in [Threads -> Working \union {"idle"}]
          /\ UNCHANGED <<session, completion, fallback, depth, serving, saved>>
          /\ UNCHANGED <<work, target, heard, judged, jobs>>
      BY <1>0, <1>12 DEF EndFork, Leave
    <2> QED BY <1>0, <2>1, <2>2, <2>3
  <1>10. CASE UNCHANGED seamsVars
    BY <1>0, <1>10 DEF seamsVars
  <1> QED BY <1>1, <1>2, <1>3, <1>4, <1>5, <1>6, <1>7, <1>8, <1>9, <1>10, <1>11, <1>12
          DEF SeamsNext

(* The depth of the dispatcher is the number of threads between install    *)
(* and uninstall.                                                          *)
LEMMA HoldersStep ==
  ASSUME SeamsInv, [SeamsNext]_seamsVars
  PROVE  Counted'
  <1> USE DEF SeamsTypeOK, Goto, JobUnchanged, SeamsUnchanged
  <1>0. SeamsTypeOK /\ Counted /\ JobsFit
    BY DEF SeamsInv
  <1>1. CASE (\E kind \in Sessions : OpenSession(kind)) \/ CloseSession \/ UNCHANGED seamsVars
    <2>1. UNCHANGED <<pc, work, depth>>
      BY <1>1 DEF OpenSession, CloseSession, seamsVars
    <2> QED BY <1>0, <2>1, SameHolders DEF Holders
  <1>2. ASSUME NEW t \in Threads, BeginFork(t) \/ BeginReplay(t) \/ BeginRecord(t)
        PROVE  Counted'
    <2>1. /\ pc[t] = "idle" /\ depth' = depth
          /\ \/ \E label \in {"patched", "repointing"} : pc' = [pc EXCEPT ![t] = label]
             \/ pc' = [pc EXCEPT ![t] = "ready"] /\ work'[t] = "record"
          /\ \A u \in Threads \ {t} : work'[u] = work[u]
      BY <1>0, <1>2 DEF BeginFork, BeginReplay, BeginRecord, Begin
    <2>2. Holders' = Holders
      BY <1>0, <2>1 DEF Holders
    <2> QED BY <1>0, <2>1, <2>2, SameHolders
  <1>3. ASSUME NEW t \in Threads, Install(t)
        PROVE  Counted'
    <2>1. /\ pc[t] = "patched" /\ pc' = [pc EXCEPT ![t] = "installed"] /\ work' = work
          /\ depth' = depth + 1 /\ work[t] # "record"
      BY <1>0, <1>3 DEF Install, JobsFit
    <2>2. t \notin Holders /\ Holders' = Holders \cup {t}
      BY <1>0, <2>1 DEF Holders
    <2> QED BY <1>0, <2>1, <2>2, OneMoreHolder
  <1>4. ASSUME NEW t \in Threads,
               \/ Bind(t) \/ Call(t) \/ Route(t) \/ Evaluate(t) \/ Unjudged(t)
               \/ EndRecord(t) \/ Unbind(t) \/ Repoint(t) \/ EndFork(t)
        PROVE  Counted'
    <2> DEFINE holding == {"installed", "ready", "called", "over", "unbound"}
    <2>1. depth' = depth /\ work' = work
      BY <1>4 DEF Bind, Call, Route, Evaluate, Unjudged, EndRecord, Unbind, Repoint, EndFork,
                  Leave
    <2>2. PICK label :
            /\ pc' = [pc EXCEPT ![t] = label]
            /\ work[t] # "record" => (pc[t] \in holding <=> label \in holding)
      BY <1>4 DEF Bind, Call, Route, Evaluate, Unjudged, EndRecord, Unbind, Repoint, EndFork,
                  Leave
    <2>3. \A u \in Threads : u \in Holders' <=> u \in Holders
      BY <1>0, <2>1, <2>2 DEF Holders
    <2>4. Holders' = Holders
      BY <2>3 DEF Holders
    <2> QED BY <1>0, <2>1, <2>4, SameHolders
  <1>5. ASSUME NEW t \in Threads, Uninstall(t)
        PROVE  Counted'
    <2>1. /\ pc[t] = "unbound" /\ pc' = [pc EXCEPT ![t] = "uninstalled"] /\ work' = work
          /\ depth' = depth - 1 /\ work[t] # "record"
      BY <1>0, <1>5 DEF Uninstall, JobsFit
    <2>2. t \in Holders /\ Holders' = Holders \ {t}
      BY <1>0, <2>1 DEF Holders
    <2> QED BY <1>0, <2>1, <2>2, OneHolderLess
  <1> QED BY <1>1, <1>2, <1>3, <1>4, <1>5 DEF SeamsNext

(* Every thread stays at a place its work can be at.                        *)
LEMMA JobsStep ==
  ASSUME SeamsInv, [SeamsNext]_seamsVars
  PROVE  JobsFit'
  <1> USE DEF SeamsInv, SeamsTypeOK, JobsFit, Goto, JobUnchanged, SeamsUnchanged
  <1>1. CASE (\E kind \in Sessions : OpenSession(kind)) \/ CloseSession \/ UNCHANGED seamsVars
    BY <1>1 DEF OpenSession, CloseSession, Quiet, seamsVars
  <1>2. ASSUME NEW t \in Threads, BeginFork(t) \/ BeginReplay(t) \/ BeginRecord(t)
        PROVE  JobsFit'
    BY <1>2 DEF BeginFork, BeginReplay, BeginRecord, Begin
  <1>3. ASSUME NEW t \in Threads,
               \/ Install(t) \/ Bind(t) \/ Call(t) \/ Route(t) \/ Evaluate(t) \/ Unjudged(t)
               \/ EndRecord(t) \/ Unbind(t) \/ Uninstall(t) \/ Repoint(t) \/ EndFork(t)
        PROVE  JobsFit'
    BY <1>3 DEF Install, Bind, Call, Route, Evaluate, Unjudged, EndRecord, Unbind, Uninstall,
                Repoint, EndFork, Leave
  <1> QED BY <1>1, <1>2, <1>3 DEF SeamsNext

(* A call that is not a recording's reads the dispatcher: its thread is a  *)
(* holder, so depth is not zero.                                           *)
LEMMA ServedStep ==
  ASSUME SeamsInv, [SeamsNext]_seamsVars
  PROVE  Served'
  <1> USE DEF SeamsInv, SeamsTypeOK, JobsFit, Served, Goto, JobUnchanged, SeamsUnchanged
  <1>1. CASE (\E kind \in Sessions : OpenSession(kind)) \/ CloseSession \/ UNCHANGED seamsVars
    BY <1>1 DEF OpenSession, CloseSession, Quiet, seamsVars
  <1>2. ASSUME NEW t \in Threads, BeginFork(t) \/ BeginReplay(t) \/ BeginRecord(t)
        PROVE  Served'
    <2>1. /\ pc[t] = "idle" /\ serving' = serving /\ target' = target
          /\ \/ \E label \in {"patched", "repointing"} : pc' = [pc EXCEPT ![t] = label]
             \/ pc' = [pc EXCEPT ![t] = "ready"] /\ work'[t] = "record"
          /\ \A u \in Threads \ {t} : work'[u] = work[u]
      BY <1>2 DEF BeginFork, BeginReplay, BeginRecord, Begin
    <2> QED BY <2>1
  <1>3. ASSUME NEW t \in Threads, Call(t)
        PROVE  Served'
    <2>1. work[t] # "record" => completion = "dispatcher"
      <3>1. SUFFICES ASSUME work[t] # "record" PROVE completion = "dispatcher"
        OBVIOUS
      <3>2. t \in Holders
        BY <1>3, <3>1 DEF Call, Holders
      <3> QED BY <3>2, DepthIsHolders DEF SeamIsRestored
    <2>2. work[t] = "record" => completion \in {"router", "dispatcher"}
      BY <1>3 DEF Call, SeamIsRestored, Underneath
    <2> QED BY <1>3, <2>1, <2>2 DEF Call
  <1>4. ASSUME NEW t \in Threads,
               \/ Install(t) \/ Route(t) \/ Evaluate(t) \/ Unjudged(t)
               \/ EndRecord(t) \/ Uninstall(t) \/ Repoint(t) \/ EndFork(t)
        PROVE  Served'
    BY <1>4 DEF Install, Route, Evaluate, Unjudged, EndRecord, Uninstall, Repoint, EndFork, Leave
  <1>5. ASSUME NEW t \in Threads, Bind(t) \/ Unbind(t)
        PROVE  Served'
    BY <1>5 DEF Bind, Unbind
  <1> QED BY <1>1, <1>2, <1>3, <1>4, <1>5 DEF SeamsNext

(* The first installs, the last restores, and no session ends in between.  *)
LEMMA SeamStep ==
  ASSUME SeamsInv, [SeamsNext]_seamsVars
  PROVE  SeamIsRestored'
  <1> USE DEF SeamsInv, SeamsTypeOK, SeamIsRestored, Underneath, Goto, JobUnchanged, SeamsUnchanged
  <1>1. ASSUME NEW kind \in Sessions, OpenSession(kind)
        PROVE  SeamIsRestored'
    BY <1>1, QuietHasNoHolders DEF OpenSession
  <1>2. CASE CloseSession
    BY <1>2, QuietHasNoHolders DEF CloseSession
  <1>3. ASSUME NEW t \in Threads, BeginFork(t) \/ BeginReplay(t) \/ BeginRecord(t)
        PROVE  SeamIsRestored'
    BY <1>3 DEF BeginFork, BeginReplay, BeginRecord
  <1>4. ASSUME NEW t \in Threads, Install(t)
        PROVE  SeamIsRestored'
    BY <1>4 DEF Install
  <1>5. ASSUME NEW t \in Threads,
               \/ Bind(t) \/ Call(t) \/ Route(t) \/ Evaluate(t) \/ Unjudged(t)
               \/ EndRecord(t) \/ Unbind(t) \/ Repoint(t) \/ EndFork(t)
        PROVE  SeamIsRestored'
    BY <1>5 DEF Bind, Call, Route, Evaluate, Unjudged, EndRecord, Unbind, Repoint, EndFork,
                  Leave
  <1>6. ASSUME NEW t \in Threads, Uninstall(t)
        PROVE  SeamIsRestored'
    <2>1. t \in Holders
      BY <1>6 DEF Uninstall, JobsFit, Holders
    <2>2. depth # 0
      BY <2>1, DepthIsHolders
    <2> QED BY <1>6, <2>2 DEF Uninstall
  <1>7. CASE UNCHANGED seamsVars
    BY <1>7 DEF seamsVars
  <1> QED BY <1>1, <1>2, <1>3, <1>4, <1>5, <1>6, <1>7 DEF SeamsNext

(* A call is answered by its own thread's replayer, by the router, or by   *)
(* nobody.                                                                 *)
LEMMA VoiceStep ==
  ASSUME SeamsInv, [SeamsNext]_seamsVars
  PROVE  OwnVoice'
  <1> USE DEF SeamsInv, SeamsTypeOK, OwnVoice, Goto, JobUnchanged, SeamsUnchanged
  <1>1. CASE (\E kind \in Sessions : OpenSession(kind)) \/ CloseSession \/ UNCHANGED seamsVars
    BY <1>1 DEF OpenSession, CloseSession, seamsVars
  <1>2. ASSUME NEW t \in Threads, BeginFork(t) \/ BeginReplay(t) \/ BeginRecord(t)
        PROVE  OwnVoice'
    <2>1. heard' = [heard EXCEPT ![t] = "unasked"] /\ \A u \in Threads \ {t} : work'[u] = work[u]
      BY <1>2 DEF BeginFork, BeginReplay, BeginRecord, Begin
    <2> QED BY <2>1
  <1>3. ASSUME NEW t \in Threads, Route(t)
        PROVE  OwnVoice'
    <2>1. CASE work[t] # "record"
      <3>1. target[t] = "dispatcher" /\ t \in serving
        BY <1>3, <2>1 DEF Route, Served
      <3>2. Answerer(t) = t
        BY <3>1 DEF Answerer
      <3> QED BY <1>3, <2>1, <3>2 DEF Route
    <2>2. CASE work[t] = "record"
      <3>1. /\ target[t] \in {"router", "dispatcher"} /\ t \notin serving
            /\ session = "collect"
        BY <1>3, <2>2 DEF Route, Served, JobsFit
      <3>2. fallback \in {"none", "router"}
        BY <3>1 DEF SeamIsRestored, Underneath
      <3>3. Answerer(t) \in {"router", "nobody"}
        BY <3>1, <3>2 DEF Answerer
      <3> QED BY <1>3, <2>2, <3>3 DEF Route
    <2> QED BY <2>1, <2>2
  <1>4. ASSUME NEW t \in Threads,
               \/ Install(t) \/ Bind(t) \/ Call(t) \/ Evaluate(t) \/ Unjudged(t)
               \/ EndRecord(t) \/ Unbind(t) \/ Uninstall(t) \/ Repoint(t) \/ EndFork(t)
        PROVE  OwnVoice'
    BY <1>4 DEF Install, Bind, Call, Evaluate, Unjudged, EndRecord, Unbind, Uninstall,
                Repoint, EndFork, Leave
  <1> QED BY <1>1, <1>2, <1>3, <1>4 DEF SeamsNext

(* While the forks are nested nobody that has the judge has yet to write   *)
(* it but the last, so who runs in a session names the chosen one.         *)
LEMMA WhoRunsIsJudged ==
  ASSUME SeamsInv, ~crossed, NEW t \in Threads, pc[t] = "ready", work[t] # "replay"
  PROVE  judge = "chosen"
  <1>1. session = "collect" \/ (session # "collect" /\ work[t] = "fork")
    BY DEF SeamsInv, SeamsTypeOK, JobsFit
  <1>2. CASE session = "collect"
    BY <1>2 DEF SeamsInv, Judging
  <1>3. CASE session # "collect" /\ work[t] = "fork"
    <2>1. t \in Repointed
      BY <1>3 DEF Repointed, Inside
    <2> QED BY <1>3, <2>1 DEF SeamsInv, Judging, JudgeFits
  <1> QED BY <1>1, <1>2, <1>3

(* A fork that comes while nobody has yet to write finds all the others.   *)
LEMMA ForkComes ==
  ASSUME SeamsInv, NEW t \in Threads, BeginFork(t), ~crossed'
  PROVE  Nested' /\ JudgeFits'
  <1> USE DEF SeamsTypeOK, Goto
  <1>0. /\ SeamsTypeOK /\ ~crossed /\ pc[t] = "idle" /\ session' = session /\ judge' = judge
        /\ t \notin Inside
    BY DEF SeamsInv, BeginFork, Begin, Inside
  <1>1. Nested /\ JudgeFits
    BY <1>0 DEF SeamsInv, Judging
  <1>2. CASE session = "collect"
    <2>1. Inside' = {} /\ saved' = saved
      BY <1>0, <1>2 DEF Inside, BeginFork
    <2> QED BY <1>0, <1>1, <1>2, <2>1 DEF Nested, JudgeFits
  <1>3. CASE session # "collect"
    <2>1. /\ pc' = [pc EXCEPT ![t] = "repointing"] /\ work' = [work EXCEPT ![t] = "fork"]
          /\ saved' = [saved EXCEPT ![t] = judge] /\ outer' = [outer EXCEPT ![t] = Inside]
          /\ \A u \in Inside : pc[u] # "repointing"
      BY <1>0, <1>3 DEF BeginFork, Begin
    <2>2. Inside' = Inside \cup {t}
      BY <1>0, <1>3, <2>1 DEF Inside
    <2>3. Repointed' = Inside /\ Repointed = Inside
      BY <1>0, <2>1, <2>2 DEF Repointed, Inside
    <2>4. t \in Threads /\ Inside \subseteq Threads
      BY DEF Inside
    <2>5. /\ outer'[t] = Inside /\ saved'[t] = judge /\ pc'[t] = "repointing"
          /\ \A u \in Inside : /\ outer'[u] = outer[u] /\ saved'[u] = saved[u]
                              /\ pc'[u] = pc[u] /\ u # t
      BY <1>0, <2>1, <2>4
    <2>6. Nested'
      BY <1>0, <1>1, <2>1, <2>2, <2>5 DEF Nested
    <2>7. JudgeFits'
      BY <1>0, <1>1, <1>3, <2>2, <2>3, <2>5 DEF JudgeFits
    <2> QED BY <2>6, <2>7
  <1> QED BY <1>0, <1>2, <1>3

(* A fork that leaves before any that found it there puts back what the    *)
(* ones it found have written.                                             *)
LEMMA ForkLeaves ==
  ASSUME SeamsInv, NEW t \in Inside, EndFork(t), ~crossed'
  PROVE  Nested' /\ JudgeFits'
  <1> USE DEF SeamsTypeOK, Goto
  <1>0. /\ SeamsTypeOK /\ ~crossed /\ t \in Threads /\ session # "collect"
        /\ session' = session
        /\ pc[t] = "uninstalled" /\ pc' = [pc EXCEPT ![t] = "idle"] /\ work' = work
        /\ judge' = saved[t] /\ saved' = saved /\ outer' = [outer EXCEPT ![t] = {}]
        /\ \A u \in Inside : t \notin outer[u]
    BY DEF SeamsInv, EndFork, Leave, Inside
  <1>1. Nested /\ JudgeFits
    BY <1>0 DEF SeamsInv, Judging
  <1>2. Inside' = Inside \ {t} /\ Inside \subseteq Threads
    BY <1>0 DEF Inside
  <1>3. outer[t] = Inside \ {t}
    BY <1>0, <1>1 DEF Nested
  <1>4. \A u \in Inside \ {t} : pc[u] # "repointing"
    BY <1>1, <1>3 DEF Nested
  <1>5. \A u \in Inside \ {t} : outer'[u] = outer[u] /\ pc'[u] = pc[u]
    BY <1>0, <1>2
  <1>6. Repointed' = Inside \ {t}
    BY <1>2, <1>4, <1>5 DEF Repointed
  <1>7. Nested'
    BY <1>0, <1>1, <1>2, <1>5 DEF Nested
  <1>8. JudgeFits'
    BY <1>0, <1>1, <1>2, <1>3, <1>5, <1>6 DEF JudgeFits
  <1> QED BY <1>7, <1>8

(* The session, the forks under it and what they found stay as they are.   *)
LEMMA ForksStay ==
  ASSUME SeamsInv, ~crossed, NEW t \in Threads, NEW label,
         pc' = [pc EXCEPT ![t] = label],
         label # "idle", label # "repointing", pc[t] # "idle",
         IF pc[t] = "repointing" THEN judge' = "chosen" ELSE judge' = judge,
         UNCHANGED <<session, saved, work, outer>>
  PROVE  Nested' /\ JudgeFits'
  <1>0. SeamsTypeOK /\ Nested /\ JudgeFits
    BY DEF SeamsInv, Judging
  <1>1. Inside' = Inside
    BY <1>0 DEF Inside, SeamsTypeOK
  <1>2. Nested'
    BY <1>0, <1>1 DEF Nested, Inside, SeamsTypeOK
  <1>3. CASE pc[t] = "repointing"
    <2>1. t \in Inside
      BY <1>0, <1>3 DEF SeamsInv, JobsFit, Inside, SeamsTypeOK
    <2>2. t \in Repointed' /\ session # "collect"
      BY <1>0, <1>1, <2>1 DEF Repointed, Inside, SeamsTypeOK
    <2> QED BY <1>0, <1>1, <1>2, <1>3, <2>2 DEF JudgeFits
  <1>4. CASE pc[t] # "repointing"
    <2>1. Repointed' = Repointed
      BY <1>0, <1>1, <1>4 DEF Repointed, Inside, SeamsTypeOK
    <2> QED BY <1>0, <1>1, <1>2, <1>4, <2>1 DEF JudgeFits
  <1> QED BY <1>3, <1>4

(* A collection repoints the judge before its pool and after it, and its   *)
(* forks leave it alone; an evaluation's forks hand it to one another.     *)
LEMMA JudgeStep ==
  ASSUME SeamsInv, [SeamsNext]_seamsVars
  PROVE  Judging'
  <1> USE DEF Goto, JobUnchanged, SeamsUnchanged
  <1>0. SeamsTypeOK /\ Judging /\ JobsFit
    BY DEF SeamsInv
  <1>1. ASSUME NEW kind \in Sessions, OpenSession(kind)
        PROVE  Judging'
    <2>1. /\ Inside = {} /\ Inside' = {} /\ Repointed = {} /\ Repointed' = {}
          /\ session' = kind
      BY <1>1 DEF OpenSession, Quiet, Inside, Repointed
    <2>2. UNCHANGED <<crossed, judged, work>> /\ session = "none"
      BY <1>1 DEF OpenSession
    <2>3. /\ kind = "collect" => judge' = "chosen" /\ saved'["main"] = judge
          /\ kind # "collect" => judge' = judge
      BY <1>0, <1>1 DEF OpenSession, SeamsTypeOK
    <2> QED BY <1>0, <2>1, <2>2, <2>3 DEF Judging, Nested, JudgeFits, JudgedByChosen
  <1>2. CASE CloseSession
    <2>1. /\ Inside = {} /\ Inside' = {} /\ Repointed = {} /\ Repointed' = {}
          /\ session' = "none"
      BY <1>2 DEF CloseSession, Quiet, Inside, Repointed
    <2>2. /\ UNCHANGED <<crossed, judged, work>> /\ session \in {"eval", "collect"}
          /\ judge' = IF session = "collect" THEN saved["main"] ELSE judge
      BY <1>0, <1>2 DEF CloseSession, SeamsTypeOK
    <2> QED BY <1>0, <2>1, <2>2 DEF Judging, Nested, JudgeFits, JudgedByChosen
  <1>3. CASE UNCHANGED seamsVars
    BY <1>0, <1>3 DEF seamsVars, Judging, Nested, JudgeFits, JudgedByChosen, Inside, Repointed
  <1>4. ASSUME NEW t \in Threads, BeginFork(t)
        PROVE  Judging'
    <2>1. /\ UNCHANGED <<session, judge>> /\ (~crossed' => ~crossed)
          /\ judged'[t] = "unasked" /\ \A u \in Threads \ {t} : judged'[u] = judged[u]
          /\ \A u \in Threads \ {t} : work'[u] = work[u]
      BY <1>0, <1>4 DEF BeginFork, Begin, SeamsTypeOK
    <2>2. ~crossed' => JudgedByChosen'
      BY <1>0, <2>1 DEF Judging, JudgedByChosen
    <2> QED BY <1>0, <1>4, <2>1, <2>2, ForkComes DEF Judging
  <1>5. ASSUME NEW t \in Threads, BeginReplay(t) \/ BeginRecord(t)
        PROVE  Judging'
    <2>1. /\ UNCHANGED <<session, judge, saved, outer, crossed>>
          /\ pc[t] = "idle" /\ work'[t] # "fork" /\ \A u \in Threads \ {t} : pc'[u] = pc[u]
          /\ judged'[t] = "unasked" /\ \A u \in Threads \ {t} : judged'[u] = judged[u]
          /\ \A u \in Threads \ {t} : work'[u] = work[u]
      BY <1>0, <1>5 DEF BeginReplay, BeginRecord, Begin, SeamsTypeOK
    <2>2. Inside' = Inside /\ t \notin Inside /\ Inside \subseteq Threads
      BY <2>1 DEF Inside
    <2>3. Repointed' = Repointed
      BY <2>1, <2>2 DEF Repointed
    <2> QED BY <1>0, <2>1, <2>2, <2>3 DEF Judging, Nested, JudgeFits, JudgedByChosen
  <1>6. ASSUME NEW t \in Threads, Evaluate(t)
        PROVE  Judging'
    <2>1. /\ judged' = [judged EXCEPT ![t] = judge] /\ pc[t] = "ready"
          /\ pc' = [pc EXCEPT ![t] = "over"]
          /\ UNCHANGED <<session, judge, saved, work, outer, crossed>>
      BY <1>6 DEF Evaluate
    <2>2. ~crossed => JudgedByChosen'
      BY <1>0, <2>1, WhoRunsIsJudged DEF Judging, JudgedByChosen, SeamsTypeOK
    <2>3. ~crossed => Nested' /\ JudgeFits'
      BY <2>1, ForksStay
    <2> QED BY <1>0, <2>1, <2>2, <2>3 DEF Judging
  <1>7. ASSUME NEW t \in Threads,
               \/ Repoint(t) \/ Install(t) \/ Bind(t) \/ Call(t) \/ Route(t) \/ Unjudged(t)
               \/ Unbind(t) \/ Uninstall(t)
        PROVE  Judging'
    <2>1. PICK label :
            /\ pc' = [pc EXCEPT ![t] = label] /\ label \notin {"idle", "repointing"}
            /\ pc[t] # "idle"
            /\ IF pc[t] = "repointing" THEN judge' = "chosen" ELSE judge' = judge
            /\ UNCHANGED <<session, saved, work, outer, crossed, judged>>
      BY <1>7 DEF Repoint, Install, Bind, Call, Route, Unjudged, Unbind, Uninstall
    <2>2. ~crossed => Nested' /\ JudgeFits'
      BY <2>1, ForksStay
    <2>3. session = "collect" => judge' = judge
      BY <1>0, <2>1 DEF JobsFit
    <2> QED BY <1>0, <2>1, <2>2, <2>3 DEF Judging, JudgedByChosen
  <1>8. ASSUME NEW t \in Threads, EndRecord(t) \/ (EndFork(t) /\ t \notin Inside)
        PROVE  Judging'
    <2>1. /\ pc' = [pc EXCEPT ![t] = "idle"] /\ t \notin Inside
          /\ UNCHANGED <<session, judge, saved, work, outer, crossed, judged>>
      BY <1>8 DEF EndRecord, EndFork, Leave, Inside
    <2>2. Inside' = Inside /\ \A u \in Inside : pc'[u] = pc[u]
      BY <1>0, <2>1 DEF Inside, SeamsTypeOK
    <2>3. Repointed' = Repointed
      BY <2>2 DEF Repointed
    <2> QED BY <1>0, <2>1, <2>2, <2>3 DEF Judging, Nested, JudgeFits, JudgedByChosen
  <1>9. ASSUME NEW t \in Inside, EndFork(t)
        PROVE  Judging'
    <2>1. /\ session # "collect" /\ UNCHANGED <<session, judged, work>>
          /\ (~crossed' => ~crossed)
      BY <1>9 DEF EndFork, Leave, Inside
    <2> QED BY <1>0, <1>9, <2>1, ForkLeaves DEF Judging, JudgedByChosen
  <1>10. ASSUME NEW t \in Threads, EndFork(t)
         PROVE  Judging'
    BY <1>8, <1>9, <1>10
  <1> QED BY <1>1, <1>2, <1>3, <1>4, <1>5, <1>6, <1>7, <1>8, <1>10 DEF SeamsNext

-----------------------------------------------------------------------------
(* The types, the count of holders, who serves whom, the seam, the         *)
(* voices and the judge hold in every state, for any number of threads     *)
(* and jobs.                                                               *)
THEOREM SeamsInvariant == SeamsSpec => []SeamsInv
  <1>1. SeamsInv /\ [SeamsNext]_seamsVars => SeamsInv'
    BY TypesStep, HoldersStep, JobsStep, ServedStep, SeamStep, VoiceStep, JudgeStep DEF SeamsInv
  <1> QED BY SeamsStart, <1>1, PTL DEF SeamsSpec

(* The seams and what the threads know of them keep their types.           *)
THEOREM SeamsTypes == SeamsSpec => []SeamsTypeOK
  <1>1. SeamsInv => SeamsTypeOK
    BY DEF SeamsInv
  <1> QED BY <1>1, SeamsInvariant, PTL

(* tau2_replay.py, _CompletionDispatcher: a fork or a replay hears its own *)
(* tape only, a recording never somebody's tape, however many share the    *)
(* attribute.                                                              *)
THEOREM SeamsOwnVoice == SeamsSpec => []OwnVoice
  <1>1. SeamsInv => OwnVoice
    BY DEF SeamsInv
  <1> QED BY <1>1, SeamsInvariant, PTL

(* tau2_replay.py, installed: the attribute is the dispatcher's exactly    *)
(* while somebody holds it, and is left as it was found.                   *)
THEOREM SeamsRestored == SeamsSpec => []SeamIsRestored
  <1>1. SeamsInv => SeamIsRestored
    BY DEF SeamsInv
  <1> QED BY <1>1, SeamsInvariant, PTL

(* tau2_judge.py, judge_routed: while the forks of an evaluation have the  *)
(* judge one inside another, every evaluator call of any run names the     *)
(* chosen one, and a quiet process has tau2's own again.                   *)
THEOREM SeamsJudged == SeamsSpec => []JudgeNests
  <1>1. SeamsInv => JudgeNests
    <2> SUFFICES ASSUME SeamsInv, ~crossed
                 PROVE  JudgedByChosen /\ (Quiet /\ session # "collect" => judge = "default")
      BY DEF JudgeNests
    <2>1. JudgedByChosen /\ JudgeFits /\ SeamsTypeOK
      BY DEF SeamsInv, Judging
    <2>2. Quiet => Repointed = {}
      BY DEF Quiet, Repointed, Inside
    <2> QED BY <2>1, <2>2 DEF JudgeFits, SeamsTypeOK
  <1> QED BY <1>1, SeamsInvariant, PTL

=============================================================================

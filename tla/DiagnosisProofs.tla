--------------------------- MODULE DiagnosisProofs ---------------------------
(***************************************************************************)
(* Proofs about a diagnosis, for any ranking, any methods, any MaxN and    *)
(* Batch, any statistics (Blames and Clears), any threads, failures and    *)
(* crashes. The arms of a step are at every look what the tape says of the *)
(* draws due at that look; so the verdicts, and the blame, are those of    *)
(* the tape alone, each draw is counted once, and each one bought was      *)
(* asked for.                                                              *)
(***************************************************************************)
EXTENDS Diagnosis, FiniteSetTheorems, TLAPS

USE PlanAssumption

(* The kinds of value the variables hold: draws, what is known of one,     *)
(* arms, verdicts on a step, answers of a method.                          *)
Draws == [variant : {"snapshot", "rerun_live-unsafe"}, arm : {"treated", "control"},
          step : Nat, offset : Nat, nth : Nat]
Entries == [draw : Draws, arm : {"treated", "control"}, step : Nat,
            got : {"owed", "pass", "fail", "failed"}]

Arms == [n : Nat, s : Nat]
Verdicts == [treated : Arms, control : Arms, reason : {"blameworthy", "cleared", "max_n"}]
Answers == [blame : Tested \cup {NoStep}, records : Seq(Entries), effects : [Tested -> Verdicts]]

(* The draws of an arm at a step, among those that were counted; the width *)
(* of the batch after j looks.                                             *)
Used(draws, arm, k) ==
  {draws[i].draw : i \in {j \in DOMAIN draws : draws[j].arm = arm /\ draws[j].step = k}}
Sampled(k, arm, n, offset) == {Draw(k, arm, offset, i) : i \in 1..n}
Width(j) == IF MaxN - j * Batch < Batch THEN MaxN - j * Batch ELSE Batch
BatchOf(m, arm, k, j) == {DrawOf(m, arm, k, j * Batch, i) : i \in 1..Width(j)}

(* A step is being estimated; the looks its treated arm, and its control,  *)
(* have been taken to.                                                     *)
Sampling == phase \in {"treated", "beside", "look"}
TreatedLook == IF phase = "treated" THEN looks ELSE looks + 1
ControlLook == IF phase = "look" THEN looks + 1 ELSE looks

(* What is in hand in each phase. *)
Phases ==
  /\ phase = "idle" => todo = {} /\ control = NoArm /\ records = << >> /\ DOMAIN effects = {}
  /\ phase # "idle" => Len(results) < Len(plan) /\ DOMAIN effects = Tested \ todo
  /\ phase \in {"idle", "blame", "shared"} => treated = NoArm /\ looks = 0
  /\ phase \in {"idle", "look", "blame"} => batch = << >>
  /\ phase \in {"shared", "treated", "beside", "look"} => todo # {}
  /\ phase = "blame" => todo = {} /\ (Method.mode # "shared" => control = NoArm)
  /\ phase = "shared" => /\ Method.mode = "shared" /\ todo = Tested
                         /\ control = NoArm /\ records = << >>
  /\ phase = "beside" => Method.mode = "per_step"

(* The sample being taken: draws next to each other, those that are in as  *)
(* the tape has them.                                                      *)
Asked(arm, k, n, offset) ==
  /\ Len(batch) = n
  /\ \A i \in 1..n :
       /\ batch[i].draw = Draw(k, arm, offset, i) /\ batch[i].arm = arm /\ batch[i].step = k
       /\ batch[i].got \in {"pass", "fail"} =>
            /\ batch[i].draw \in DOMAIN tape
            /\ batch[i].got = Outcome(tape[batch[i].draw].passed)

(* What each sampling phase has asked the pool for.                        *)
Taken ==
  /\ phase = "shared" => Asked("control", Min(Tested), MaxN, 0)
  /\ phase = "treated" => Asked("treated", Min(todo), Width(looks), looks * Batch)
  /\ phase = "beside" => Asked("control", Min(todo), Width(looks), looks * Batch)

(* The step being estimated: its arms are those of the last look, of which *)
(* none was decisive.                                                      *)
Stands(m, k, tl, cl) ==
  /\ treated.n = AtLook(tl) /\ treated = TreatedAt(m, k, tl)
  /\ Used(records, "treated", k) = DueDraws(m, "treated", k, tl)
  /\ control = ControlAt(m, k, cl)
  /\ m.mode = "per_step" => /\ control.n = AtLook(cl)
                            /\ Used(records, "control", k) = DueDraws(m, "control", k, cl)
  /\ UndecidedBefore(m, k, looks + 1)

(* The step being estimated is the earliest left, and it has draws to      *)
(* come.                                                                   *)
UnderWay ==
  Sampling => looks * Batch < MaxN /\ Stands(Method, Min(todo), TreatedLook, ControlLook)

(* A shared control, once it is in, is the one sample of MaxN draws.       *)
SharedIn ==
  (Sampling \/ phase = "blame") /\ Method.mode = "shared" =>
    /\ control.n = MaxN /\ control = ArmOf(SharedDraws(Method))
    /\ Used(records, "control", Min(Tested)) = SharedDraws(Method)

(* Nothing was counted yet for the steps that are still to come.           *)
Untouched ==
  \A k \in todo : (Sampling => k # Min(todo)) =>
    /\ Used(records, "treated", k) = {}
    /\ Method.mode = "per_step" => Used(records, "control", k) = {}

(* A step estimated by method m: it stopped at look L.                     *)
Settled(m, draws, k, e, L) ==
  /\ UndecidedBefore(m, k, L)
  /\ e.treated = TreatedAt(m, k, L) /\ e.control = ControlAt(m, k, L)
  /\ e.treated.n = AtLook(L)
  /\ e.reason = Verdict(L, e.treated, e.control) /\ e.reason # "undecided"
  /\ Used(draws, "treated", k) = DueDraws(m, "treated", k, L)
  /\ m.mode = "shared" => Used(draws, "control", Min(Tested)) = SharedDraws(m)
  /\ m.mode = "per_step" => Used(draws, "control", k) = DueDraws(m, "control", k, L)

(* The steps the method has finished.                                      *)
Estimated ==
  \A k \in DOMAIN effects : \E L \in Looks : Settled(Method, records, k, effects[k], L)

(* The methods that have finished: their answers, and the draws behind     *)
(* them.                                                                   *)
Answered ==
  \A r \in DOMAIN results :
    /\ Honest(plan[r], results[r].records)
    /\ results[r].blame = Blame(results[r].effects)
    /\ \A k \in Tested : \E L \in Looks :
         Settled(plan[r], results[r].records, k, results[r].effects[k], L)

(* A fork on the tape was made as its id says.                             *)
TapeIsReal ==
  \A d \in DOMAIN tape :
    /\ tape[d].passed \in BOOLEAN
    /\ tape[d].variant = d.variant /\ tape[d].arm = d.arm /\ tape[d].step = d.step

(* The types the proof needs, more exact than TypeOK where it bounds.      *)
Typed ==
  /\ ranking \in Seq(Nat) /\ plan \in Seq(Methods)
  /\ [ranking |-> ranking, plan |-> plan] \in Evaluations
  /\ results \in Seq(Answers) /\ Len(results) <= Len(plan)
  /\ phase \in {"idle", "shared", "treated", "beside", "look", "blame"}
  /\ todo \subseteq Tested
  /\ treated \in Arms /\ control \in Arms /\ looks \in Nat
  /\ batch \in Seq(Entries) /\ records \in Seq(Entries)
  /\ effects \in [DOMAIN effects -> Verdicts]
  /\ faults \in 0..MaxFaults

(* What the method under way has counted is on the tape, no draw twice.    *)
Counted == phase # "idle" => Honest(Method, records)

-----------------------------------------------------------------------------
(* A set of steps that is not empty has an earliest one.                   *)
LEMMA EarliestIsIn ==
  ASSUME NEW S, S \subseteq Nat, S # {}
  PROVE  Min(S) \in S
  <1>1. PICK m \in S : \A n \in S : <<n, m>> \notin OpToRel(<, Nat)
    BY WFMin, NatLessThanWellFounded, Zenon
  <1>2. \A n \in S : ~(n < m)
    BY <1>1, Zenon DEF OpToRel
  <1>3. \A n \in S : m <= n
    BY <1>2
  <1> QED BY <1>3 DEF Min

(* Only suspects that have an intervention are tested, finitely many.      *)
LEMMA TestedSteps == Tested \subseteq Nat /\ Tested \subseteq Testable
  BY DEF Tested

(* A batch: what is missing to MaxN, if that is less than a full one.      *)
LEMMA BatchWidth ==
  ASSUME NEW L \in Nat, L * Batch < MaxN
  PROVE  /\ L * Batch \in Nat /\ (L + 1) * Batch = L * Batch + Batch
         /\ Width(L) \in 1..Batch
         /\ AtLook(L) = L * Batch
         /\ AtLook(L + 1) = L * Batch + Width(L)
         /\ AtLook(L + 1) \in 1..MaxN
         /\ AtLook(L + 1) < MaxN => AtLook(L + 1) = (L + 1) * Batch
  <1>1. L * Batch \in Nat /\ (L + 1) * Batch = L * Batch + Batch
    OBVIOUS
  <1> DEFINE x == L * Batch
  <1>2. x \in Nat /\ x < MaxN
    BY <1>1
  <1> HIDE DEF x
  <1>3. /\ (IF MaxN - x < Batch THEN MaxN - x ELSE Batch) \in 1..Batch
        /\ (IF x + Batch > MaxN THEN MaxN ELSE x + Batch)
              = x + (IF MaxN - x < Batch THEN MaxN - x ELSE Batch)
        /\ (IF x + Batch > MaxN THEN MaxN ELSE x + Batch) \in 1..MaxN
        /\ (IF x > MaxN THEN MaxN ELSE x) = x
    BY <1>2
  <1>4. /\ Width(L) = IF MaxN - x < Batch THEN MaxN - x ELSE Batch
        /\ AtLook(L) = (IF x > MaxN THEN MaxN ELSE x)
        /\ AtLook(L + 1) = (IF x + Batch > MaxN THEN MaxN ELSE x + Batch)
    BY <1>1 DEF x, Width, AtLook
  <1> QED BY <1>1, <1>2, <1>3, <1>4 DEF x

(* There are as many looks as batches are begun before MaxN is reached.    *)
LEMMA LooksPlanned ==
  /\ Looks \subseteq Nat /\ Cardinality(Looks) \in Nat /\ Looks = 1..Cardinality(Looks)
  /\ \A L \in Nat : L * Batch < MaxN => L + 1 \in Looks
  /\ \A L \in Nat : L * Batch >= MaxN => \A j \in Looks : j <= L
  <1> DEFINE q == (MaxN + Batch - 1) \div Batch
  <1>1. q \in Nat /\ q * Batch <= MaxN + Batch - 1 /\ MaxN + Batch - 1 < (q + 1) * Batch
    OBVIOUS
  <1>2. Looks = 1..q /\ Cardinality(Looks) = q
    BY <1>1, FS_Interval DEF Looks
  <1> HIDE DEF q
  <1>3. ASSUME NEW L \in Nat, L * Batch < MaxN PROVE L + 1 <= q
    <2>1. SUFFICES ASSUME q <= L PROVE FALSE
      BY <1>1
    <2>2. PICK x \in Nat : L = q + x
      <3>1. L - q \in Nat /\ L = q + (L - q)
        BY <1>1, <2>1
      <3> QED BY <3>1
    <2>3. L * Batch = q * Batch + x * Batch /\ x * Batch >= 0 /\ (q + 1) * Batch = q * Batch + Batch
      BY <1>1, <2>2
    <2> QED BY <1>1, <1>3, <2>3
  <1>4. ASSUME NEW L \in Nat, L * Batch >= MaxN, NEW j \in 1..q PROVE j <= L
    <2>1. SUFFICES ASSUME L + 1 <= q PROVE FALSE
      BY <1>1
    <2>2. PICK x \in Nat : q = L + 1 + x
      <3>1. q - (L + 1) \in Nat /\ q = L + 1 + (q - (L + 1))
        BY <1>1, <2>1
      <3> QED BY <3>1
    <2>3. q * Batch = L * Batch + Batch + x * Batch /\ x * Batch >= 0
      BY <1>1, <2>2
    <2> QED BY <1>1, <1>4, <2>3
  <1> QED BY <1>1, <1>2, <1>3, <1>4

-----------------------------------------------------------------------------
(* At look 0 no draw is due; a batch later those of the batch are, which   *)
(* were not.                                                               *)
LEMMA DueAtFirst == \A m, arm, k : DueDraws(m, arm, k, 0) = {}
  BY DEF DueDraws

(* The draws due at a look are the ones numbered up to it, batch by batch. *)
LEMMA DueDraw ==
  ASSUME NEW m, NEW arm, NEW k, NEW L \in Nat, NEW d
  PROVE  d \in DueDraws(m, arm, k, L) <=>
           \E j \in 1..L, i \in 1..Batch :
             (j - 1) * Batch + i <= MaxN /\ d = DrawOf(m, arm, k, (j - 1) * Batch, i)
  <1> DEFINE P == {q \in (1..L) \X (1..Batch) : (q[1] - 1) * Batch + q[2] <= MaxN}
  <1>1. ASSUME NEW p \in P, d = DrawOf(m, arm, k, (p[1] - 1) * Batch, p[2])
        PROVE  \E j \in 1..L, i \in 1..Batch :
                 (j - 1) * Batch + i <= MaxN /\ d = DrawOf(m, arm, k, (j - 1) * Batch, i)
    <2>1. p[1] \in 1..L /\ p[2] \in 1..Batch /\ (p[1] - 1) * Batch + p[2] <= MaxN
      OBVIOUS
    <2> QED BY <1>1, <2>1
  <1>2. ASSUME NEW j \in 1..L, NEW i \in 1..Batch,
               (j - 1) * Batch + i <= MaxN, d = DrawOf(m, arm, k, (j - 1) * Batch, i)
        PROVE  \E p \in P : d = DrawOf(m, arm, k, (p[1] - 1) * Batch, p[2])
    <2> DEFINE p == <<j, i>>
    <2>1. p \in (1..L) \X (1..Batch) /\ p[1] = j /\ p[2] = i
      OBVIOUS
    <2> HIDE DEF p
    <2>2. p \in P
      BY <1>2, <2>1
    <2> QED BY <1>2, <2>1, <2>2
  <1>3. d \in DueDraws(m, arm, k, L)
          <=> \E p \in P : d = DrawOf(m, arm, k, (p[1] - 1) * Batch, p[2])
    BY DEF DueDraws
  <1> QED BY <1>1, <1>2, <1>3, Zenon

LEMMA DueWithTheBatch ==
  ASSUME NEW m, NEW arm, NEW k, NEW L \in Nat, L * Batch < MaxN
  PROVE  /\ DueDraws(m, arm, k, L + 1) =
              DueDraws(m, arm, k, L) \cup BatchOf(m, arm, k, L)
         /\ DueDraws(m, arm, k, L) \cap BatchOf(m, arm, k, L) = {}
  <1> DEFINE New == {DrawOf(m, arm, k, L * Batch, i) : i \in 1..Width(L)}
  <1>1. ASSUME NEW d \in DueDraws(m, arm, k, L + 1) PROVE d \in DueDraws(m, arm, k, L) \cup New
    <2>1. PICK j \in 1..(L + 1), i \in 1..Batch :
             (j - 1) * Batch + i <= MaxN /\ d = DrawOf(m, arm, k, (j - 1) * Batch, i)
      BY <1>1 DEF DueDraws
    <2>2. CASE j = L + 1
      <3>1. i \in 1..Width(L) /\ (j - 1) * Batch = L * Batch
        BY <2>1, <2>2, BatchWidth DEF Width
      <3> QED BY <2>1, <3>1
    <2>3. CASE j # L + 1
      <3>1. j \in 1..L
        BY <2>3
      <3> QED BY <2>1, <3>1, DueDraw
    <2> QED BY <2>2, <2>3
  <1>2. ASSUME NEW d \in DueDraws(m, arm, k, L)
        PROVE  d \in DueDraws(m, arm, k, L + 1) /\ d \notin New
    <2>1. PICK j \in 1..L, i \in 1..Batch :
             (j - 1) * Batch + i <= MaxN /\ d = DrawOf(m, arm, k, (j - 1) * Batch, i)
      BY <1>2, DueDraw
    <2>2. d \in DueDraws(m, arm, k, L + 1)
      <3>1. j \in 1..(L + 1)
        OBVIOUS
      <3> QED BY <2>1, <3>1, DueDraw
    <2>3. (j - 1) * Batch # L * Batch
      <3> DEFINE y == j - 1  x == L - y
      <3>1. y \in Nat /\ x \in Nat /\ x >= 1 /\ L = y + x
        OBVIOUS
      <3> HIDE DEF y, x
      <3>2. L * Batch = y * Batch + x * Batch /\ x * Batch \in Nat /\ y * Batch \in Nat
        BY <3>1
      <3>3. x * Batch # 0
        BY <3>1
      <3>4. y * Batch # L * Batch
        BY <3>2, <3>3
      <3> QED BY <3>4 DEF y
    <2>4. d.offset = (j - 1) * Batch
      BY <2>1 DEF DrawOf
    <2>5. \A n \in New : n.offset = L * Batch
      BY DEF DrawOf
    <2> QED BY <2>2, <2>3, <2>4, <2>5
  <1>3. ASSUME NEW i \in 1..Width(L)
        PROVE  DrawOf(m, arm, k, L * Batch, i) \in DueDraws(m, arm, k, L + 1)
    <2>1. /\ i \in 1..Batch /\ L * Batch + i <= MaxN
          /\ L + 1 \in 1..(L + 1) /\ (L + 1) - 1 = L /\ L + 1 \in Nat
      BY BatchWidth DEF Width
    <2> QED BY <2>1, DueDraw
  <1> QED BY <1>1, <1>2, <1>3 DEF BatchOf

(* What is due at a look is due at the later ones.                         *)
LEMMA DueStays ==
  ASSUME NEW m, NEW arm, NEW k, NEW L \in Nat, NEW j \in 0..L
  PROVE  DueDraws(m, arm, k, j) \subseteq DueDraws(m, arm, k, L)
  <1> SUFFICES ASSUME NEW d \in DueDraws(m, arm, k, j) PROVE d \in DueDraws(m, arm, k, L)
    OBVIOUS
  <1>1. PICK p \in (1..j) \X (1..Batch) :
           (p[1] - 1) * Batch + p[2] <= MaxN /\ d = DrawOf(m, arm, k, (p[1] - 1) * Batch, p[2])
    BY DEF DueDraws
  <1>2. p \in (1..L) \X (1..Batch)
    OBVIOUS
  <1> QED BY <1>1, <1>2 DEF DueDraws

(* The control of a later look has what that of an earlier one has.        *)
LEMMA ControlStays ==
  ASSUME NEW m \in Methods, NEW k, NEW L \in Nat, NEW j \in 0..L
  PROVE  ControlDraws(m, k, j) \subseteq ControlDraws(m, k, L)
  BY DueStays DEF ControlDraws, Methods

-----------------------------------------------------------------------------
(* An arm is counted over finitely many draws, none counted twice.         *)
LEMMA ArmCounts ==
  ASSUME NEW A, IsFiniteSet(A)
  PROVE  /\ ArmOf(A).n \in Nat /\ ArmOf(A).s \in Nat /\ ArmOf(A).s <= ArmOf(A).n
         /\ ArmOf(A) = [n |-> ArmOf(A).n, s |-> ArmOf(A).s]
         /\ ArmOf({}) = NoArm
  <1> DEFINE P == {d \in A \cap DOMAIN tape : tape[d].passed}
  <1>1. P \in SUBSET A
    OBVIOUS
  <1>2. Cardinality(P) \in Nat /\ Cardinality(A) \in Nat /\ Cardinality(P) <= Cardinality(A)
    BY <1>1, FS_Subset, FS_CardinalityType
  <1>3. {d \in {} \cap DOMAIN tape : tape[d].passed} = {}
    OBVIOUS
  <1> QED BY <1>2, <1>3, FS_EmptySet DEF ArmOf, NoArm

(* Two samples without a draw in common add up.                            *)
LEMMA ArmsAdd ==
  ASSUME NEW A, NEW B, IsFiniteSet(A), IsFiniteSet(B), A \cap B = {}
  PROVE  /\ IsFiniteSet(A \cup B)
         /\ ArmOf(A \cup B) = [n |-> ArmOf(A).n + ArmOf(B).n, s |-> ArmOf(A).s + ArmOf(B).s]
  <1> DEFINE PA == {d \in A \cap DOMAIN tape : tape[d].passed}
             PB == {d \in B \cap DOMAIN tape : tape[d].passed}
             PC == {d \in (A \cup B) \cap DOMAIN tape : tape[d].passed}
  <1>1. /\ ArmOf(A) = [n |-> Cardinality(A), s |-> Cardinality(PA)]
        /\ ArmOf(B) = [n |-> Cardinality(B), s |-> Cardinality(PB)]
        /\ ArmOf(A \cup B) = [n |-> Cardinality(A \cup B), s |-> Cardinality(PC)]
    BY DEF ArmOf
  <1>2. PA \in SUBSET A /\ PB \in SUBSET B /\ PA \cap PB = {} /\ PC = PA \cup PB
    OBVIOUS
  <1> HIDE DEF PA, PB, PC
  <1>3. IsFiniteSet(PA) /\ IsFiniteSet(PB)
    BY <1>2, FS_Subset
  <1>4. /\ IsFiniteSet(A \cup B) /\ Cardinality(A \cap B) = 0
        /\ Cardinality(A \cup B) = Cardinality(A) + Cardinality(B) - Cardinality(A \cap B)
    BY FS_Union, FS_EmptySet
  <1>5. /\ Cardinality(PA \cap PB) = 0
        /\ Cardinality(PC) = Cardinality(PA) + Cardinality(PB) - Cardinality(PA \cap PB)
    BY <1>2, <1>3, FS_Union, FS_EmptySet
  <1>6. /\ Cardinality(A) \in Nat /\ Cardinality(B) \in Nat
        /\ Cardinality(PA) \in Nat /\ Cardinality(PB) \in Nat
    BY <1>3, FS_CardinalityType
  <1>7. /\ Cardinality(A \cup B) = Cardinality(A) + Cardinality(B)
        /\ Cardinality(PC) = Cardinality(PA) + Cardinality(PB)
    BY <1>4, <1>5, <1>6
  <1>8. ArmOf(A).n = Cardinality(A) /\ ArmOf(A).s = Cardinality(PA)
    BY <1>1
  <1>9. ArmOf(B).n = Cardinality(B) /\ ArmOf(B).s = Cardinality(PB)
    BY <1>1
  <1> QED BY <1>1, <1>4, <1>7, <1>8, <1>9

(* Entries that name different draws, each with the outcome the tape has,  *)
(* are counted as the set of their draws is.                               *)
LEMMA EntriesCount ==
  ASSUME NEW f, NEW I, IsFiniteSet(I), TapeIsReal,
         \A i, j \in I : f[i].draw = f[j].draw => i = j,
         \A i \in I : /\ f[i].draw \in DOMAIN tape
                      /\ f[i].got = Outcome(tape[f[i].draw].passed)
  PROVE  /\ IsFiniteSet({f[i].draw : i \in I})
         /\ ArmOf({f[i].draw : i \in I}) =
              [n |-> Cardinality(I), s |-> Cardinality({i \in I : f[i].got = "pass"})]
  <1> DEFINE D == {f[i].draw : i \in I}
             J == {i \in I : f[i].got = "pass"}
             E == {d \in D \cap DOMAIN tape : tape[d].passed}
  <1>1. [i \in I |-> f[i].draw] \in Bijection(I, D)
    BY DEF Bijection, Injection, Surjection, IsInjective
  <1>2. \A i \in I : i \in J <=> tape[f[i].draw].passed
    BY DEF Outcome, TapeIsReal
  <1>3. [i \in J |-> f[i].draw] \in Bijection(J, E)
    BY <1>2 DEF Bijection, Injection, Surjection, IsInjective
  <1>4. IsFiniteSet(J)
    BY FS_Subset
  <1>5. IsFiniteSet(D) /\ Cardinality(D) = Cardinality(I)
    BY <1>1, FS_Bijection DEF ExistsBijection
  <1>6. Cardinality(E) = Cardinality(J)
    BY <1>3, <1>4, FS_Bijection DEF ExistsBijection
  <1> QED BY <1>5, <1>6 DEF ArmOf

-----------------------------------------------------------------------------
(* What a step of the program does to the tape at most.                    *)
Grows ==
  /\ UNCHANGED ranking /\ DOMAIN tape \subseteq DOMAIN tape'
  /\ \A d \in DOMAIN tape : tape'[d] = tape[d]

(* The draws that an honest method counted are on the tape.                *)
LEMMA UsedAreOnTape ==
  ASSUME NEW m, NEW draws, NEW arm, NEW k, Honest(m, draws)
  PROVE  Used(draws, arm, k) \subseteq DOMAIN tape
  BY DEF Used, Honest

(* A count over draws the tape has does not change while it grows.         *)
LEMMA ArmStays ==
  ASSUME Grows, NEW D, D \subseteq DOMAIN tape
  PROVE  ArmOf(D)' = ArmOf(D)
  <1>1. {d \in D \cap DOMAIN tape' : tape'[d].passed} = {d \in D \cap DOMAIN tape : tape[d].passed}
    BY DEF Grows
  <1> QED BY <1>1 DEF ArmOf

(* So neither do the arms of a look that was reached,                      *)
LEMMA ArmsStay ==
  ASSUME Grows, NEW m, NEW k, NEW L
  PROVE  /\ Tested' = Tested /\ SharedDraws(m)' = SharedDraws(m)
         /\ ControlDraws(m, k, L)' = ControlDraws(m, k, L)
         /\ DueDraws(m, "treated", k, L) \subseteq DOMAIN tape =>
              TreatedAt(m, k, L)' = TreatedAt(m, k, L)
         /\ ControlDraws(m, k, L) \subseteq DOMAIN tape => ControlAt(m, k, L)' = ControlAt(m, k, L)
  <1>1. Tested' = Tested
    BY DEF Grows, Tested, Shortlist
  <1>2. SharedDraws(m)' = SharedDraws(m)
    BY <1>1 DEF SharedDraws
  <1>3. ControlDraws(m, k, L)' = ControlDraws(m, k, L)
    BY <1>2 DEF ControlDraws
  <1> QED BY <1>1, <1>2, <1>3, ArmStays DEF TreatedAt, ControlAt

(* nor that the looks before it decided nothing,                           *)
LEMMA UndecidedStays ==
  ASSUME Grows, NEW m \in Methods, NEW k, NEW L \in Nat,
         DueDraws(m, "treated", k, L) \cup ControlDraws(m, k, L) \subseteq DOMAIN tape
  PROVE  UndecidedBefore(m, k, L + 1)' <=> UndecidedBefore(m, k, L + 1)
  <1>1. ASSUME NEW j \in 1..L
        PROVE  TreatedAt(m, k, j)' = TreatedAt(m, k, j) /\ ControlAt(m, k, j)' = ControlAt(m, k, j)
    <2>1. j \in 0..L
      OBVIOUS
    <2>2. DueDraws(m, "treated", k, j) \subseteq DOMAIN tape
          /\ ControlDraws(m, k, j) \subseteq DOMAIN tape
      BY <2>1, DueStays, ControlStays
    <2> QED BY <2>2, ArmsStay
  <1>2. (L + 1) - 1 = L
    OBVIOUS
  <1> QED BY <1>1, <1>2 DEF UndecidedBefore

(* nor that a draw was needed,                                             *)
LEMMA NeededStays ==
  ASSUME Grows, NEW m \in Methods, NEW d, Needed(m, d)
  PROVE  Needed(m, d)'
  <1>1. CASE m.mode = "shared" /\ d \in SharedDraws(m)
    BY <1>1, ArmsStay DEF Needed
  <1>2. CASE \E k \in Tested, j \in Looks :
               /\ d \in DueDraws(m, "treated", k, j)
                        \cup (IF m.mode = "per_step" THEN DueDraws(m, "control", k, j) ELSE {})
               /\ UndecidedBefore(m, k, j)
               /\ \A b \in DueDraws(m, "treated", k, j - 1) \cup ControlDraws(m, k, j - 1) :
                    b \in DOMAIN tape
    <2>1. PICK k \in Tested, j \in Looks :
               /\ d \in DueDraws(m, "treated", k, j)
                        \cup (IF m.mode = "per_step" THEN DueDraws(m, "control", k, j) ELSE {})
               /\ UndecidedBefore(m, k, j)
               /\ \A b \in DueDraws(m, "treated", k, j - 1) \cup ControlDraws(m, k, j - 1) :
                    b \in DOMAIN tape
      BY <1>2
    <2>2. j - 1 \in Nat /\ (j - 1) + 1 = j
      BY LooksPlanned
    <2>3. UndecidedBefore(m, k, j)'
      <3> DEFINE L == j - 1
      <3>1. DueDraws(m, "treated", k, L) \cup ControlDraws(m, k, L) \subseteq DOMAIN tape
        BY <2>1
      <3>2. L \in Nat /\ L + 1 = j
        BY <2>2
      <3> HIDE DEF L
      <3>3. UndecidedBefore(m, k, L + 1)' <=> UndecidedBefore(m, k, L + 1)
        BY <3>1, <3>2, UndecidedStays
      <3> QED BY <2>1, <3>2, <3>3
    <2>4. /\ Tested' = Tested /\ ControlDraws(m, k, j - 1)' = ControlDraws(m, k, j - 1)
          /\ DOMAIN tape \subseteq DOMAIN tape'
      BY ArmsStay DEF Grows
    <2> QED BY <2>1, <2>3, <2>4 DEF Needed
  <1> QED BY <1>1, <1>2 DEF Needed

(* nor that the records are honest,                                        *)
LEMMA HonestStays ==
  ASSUME Grows, NEW m, NEW draws, Honest(m, draws)
  PROVE  Honest(m, draws)'
  BY DEF Grows, Honest

(* nor that a step settled as it did.                                      *)
LEMMA SettledStays ==
  ASSUME Grows, NEW m \in Methods, NEW draws, NEW k, NEW e, NEW L \in Looks,
         Honest(m, draws), Settled(m, draws, k, e, L)
  PROVE  Settled(m, draws, k, e, L)'
  <1>1. DueDraws(m, "treated", k, L) \subseteq DOMAIN tape
    BY UsedAreOnTape DEF Settled
  <1>2. ControlDraws(m, k, L) \subseteq DOMAIN tape
    BY UsedAreOnTape DEF Settled, ControlDraws, Methods
  <1>3. TreatedAt(m, k, L)' = TreatedAt(m, k, L) /\ ControlAt(m, k, L)' = ControlAt(m, k, L)
    BY <1>1, <1>2, ArmsStay
  <1>4. UndecidedBefore(m, k, L)'
    <2> DEFINE j == L - 1
    <2>1. j \in Nat /\ j + 1 = L /\ j \in 0..L /\ L \in Nat
      BY LooksPlanned
    <2> HIDE DEF j
    <2>2. DueDraws(m, "treated", k, j) \cup ControlDraws(m, k, j) \subseteq DOMAIN tape
      BY <1>1, <1>2, <2>1, DueStays, ControlStays
    <2>3. UndecidedBefore(m, k, j + 1)' <=> UndecidedBefore(m, k, j + 1)
      BY <2>1, <2>2, UndecidedStays
    <2> QED BY <2>1, <2>3 DEF Settled
  <1>5. Tested' = Tested /\ SharedDraws(m)' = SharedDraws(m)
    BY ArmsStay
  <1> QED BY <1>3, <1>4, <1>5 DEF Settled

-----------------------------------------------------------------------------
(* Folding a sample in.                                                    *)

(* The totals of the entries of an arm at a step are those of their draws. *)
LEMMA TallyIsArm ==
  ASSUME NEW m, NEW draws \in Seq(Entries), NEW arm, NEW k, Honest(m, draws), TapeIsReal
  PROVE  /\ IsFiniteSet(Used(draws, arm, k))
         /\ Tally(draws, arm, k) = ArmOf(Used(draws, arm, k))
  <1> DEFINE I == {i \in DOMAIN draws : draws[i].arm = arm /\ draws[i].step = k}
  <1>1. IsFiniteSet(DOMAIN draws)
    <2>1. DOMAIN draws = 1..Len(draws) /\ Len(draws) \in Nat
      OBVIOUS
    <2> QED BY <2>1, FS_Interval
  <1>2. IsFiniteSet(I)
    BY <1>1, FS_Subset
  <1>3. /\ \A i, j \in I : draws[i].draw = draws[j].draw => i = j
        /\ \A i \in I : /\ draws[i].draw \in DOMAIN tape
                        /\ draws[i].got = Outcome(tape[draws[i].draw].passed)
    BY DEF Honest
  <1>4. Used(draws, arm, k) = {draws[i].draw : i \in I}
    BY DEF Used
  <1>5. Tally(draws, arm, k) =
        [n |-> Cardinality(I), s |-> Cardinality({i \in I : draws[i].got = "pass"})]
    BY DEF Tally
  <1> HIDE DEF I
  <1> QED BY <1>2, <1>3, <1>4, <1>5, EntriesCount

(* A sample that is in is counted like the set of its draws.               *)
LEMMA SampleCounts ==
  ASSUME NEW arm, NEW k, NEW n \in Nat, NEW offset, batch \in Seq(Entries),
         Asked(arm, k, n, offset), AllIn, TapeIsReal
  PROVE  /\ IsFiniteSet(Sampled(k, arm, n, offset))
         /\ ArmOf(Sampled(k, arm, n, offset)).n = n
         /\ \A a : Extended(a) = [n |-> a.n + ArmOf(Sampled(k, arm, n, offset)).n,
                                 s |-> a.s + ArmOf(Sampled(k, arm, n, offset)).s]
  <1> DEFINE New == Sampled(k, arm, n, offset)
             I == DOMAIN batch
  <1>1. I = 1..n /\ Len(batch) = n
    BY DEF Asked
  <1>2. IsFiniteSet(I) /\ Cardinality(I) = n
    BY <1>1, FS_Interval
  <1>3. /\ \A i \in I : batch[i].draw = Draw(k, arm, offset, i)
        /\ \A i \in I : /\ batch[i].draw \in DOMAIN tape
                        /\ batch[i].got = Outcome(tape[batch[i].draw].passed)
    BY <1>1 DEF Asked, AllIn
  <1>4. \A i, j \in I : batch[i].draw = batch[j].draw => i = j
    <2>1. \A i \in I : Draw(k, arm, offset, i).nth = i
      BY DEF Draw
    <2> QED BY <1>3, <2>1
  <1>5. New = {batch[i].draw : i \in I}
    BY <1>1, <1>3 DEF Sampled
  <1>6. \A a : Extended(a) =
        [n |-> a.n + n, s |-> a.s + Cardinality({i \in I : batch[i].got = "pass"})]
    BY <1>1 DEF Extended
  <1> HIDE DEF I, New
  <1>7. /\ IsFiniteSet(New)
        /\ ArmOf(New) = [n |-> Cardinality(I), s |-> Cardinality({i \in I : batch[i].got = "pass"})]
    BY <1>2, <1>3, <1>4, <1>5, EntriesCount
  <1>8. ArmOf(New).n = n /\ ArmOf(New).s = Cardinality({i \in I : batch[i].got = "pass"})
    BY <1>2, <1>7
  <1>9. IsFiniteSet(New) /\ ArmOf(New).n = n
        /\ \A a : Extended(a) = [n |-> a.n + ArmOf(New).n, s |-> a.s + ArmOf(New).s]
    BY <1>6, <1>7, <1>8
  <1> QED BY <1>9 DEF New

(* A sample of draws that are not counted yet leaves the method honest, and *)
(* adds its draws to those of its arm at its step, and to no other's.      *)
LEMMA SampleIsFolded ==
  ASSUME NEW arm, NEW k, NEW n \in Nat, NEW offset,
         batch \in Seq(Entries), records \in Seq(Entries),
         Asked(arm, k, n, offset), AllIn, TapeIsReal, Honest(Method, records),
         Used(records, arm, k) \cap Sampled(k, arm, n, offset) = {}
  PROVE  /\ records \o batch \in Seq(Entries)
         /\ Honest(Method, records \o batch)
         /\ Used(records \o batch, arm, k) =
              Used(records, arm, k) \cup Sampled(k, arm, n, offset)
         /\ \A a, j : a # arm \/ j # k => Used(records \o batch, a, j) = Used(records, a, j)
  <1> DEFINE R == records \o batch
             l == Len(records)
             New == Sampled(k, arm, n, offset)
  <1>1. /\ R \in Seq(Entries) /\ DOMAIN R = 1..(l + n) /\ l \in Nat
        /\ DOMAIN records = 1..l /\ DOMAIN batch = 1..n
        /\ \A i \in 1..l : R[i] = records[i]
        /\ \A i \in (l + 1)..(l + n) : i - l \in 1..n /\ R[i] = batch[i - l]
        /\ \A i \in 1..n : l + i \in (l + 1)..(l + n) /\ (l + i) - l = i
        /\ \A i \in DOMAIN R : i \in 1..l \/ i \in (l + 1)..(l + n)
        /\ 1..l \subseteq DOMAIN R /\ (l + 1)..(l + n) \subseteq DOMAIN R
    BY DEF Asked
  <1> HIDE DEF R, l
  <1>2. \A i \in 1..n :
          /\ batch[i].draw = Draw(k, arm, offset, i) /\ batch[i].arm = arm /\ batch[i].step = k
          /\ batch[i].draw \in DOMAIN tape
          /\ batch[i].got = Outcome(tape[batch[i].draw].passed)
    BY <1>1 DEF Asked, AllIn
  <1>3. \A i \in 1..n : LET run == tape[batch[i].draw] IN
          run.variant = Method.variant /\ run.arm = batch[i].arm /\ run.step = batch[i].step
    <2> SUFFICES ASSUME NEW i \in 1..n
                 PROVE  LET run == tape[batch[i].draw] IN
                        run.variant = Method.variant /\ run.arm = arm /\ run.step = k
      BY <1>2
    <2>1. /\ Draw(k, arm, offset, i).variant = Method.variant
          /\ Draw(k, arm, offset, i).arm = arm /\ Draw(k, arm, offset, i).step = k
      BY DEF Draw
    <2> QED BY <1>2, <2>1 DEF TapeIsReal
  <1>4. \A i \in 1..l, j \in 1..n : records[i].draw # batch[j].draw
    <2> SUFFICES ASSUME NEW i \in 1..l, NEW j \in 1..n, records[i].draw = batch[j].draw PROVE FALSE
      OBVIOUS
    <2>1. records[i].arm = arm /\ records[i].step = k
      <3>1. LET run == tape[batch[j].draw] IN run.arm = arm /\ run.step = k
        BY <1>2, <1>3
      <3>2. LET run == tape[records[i].draw] IN
              run.arm = records[i].arm /\ run.step = records[i].step
        BY <1>1 DEF Honest
      <3> QED BY <3>1, <3>2
    <2>2. records[i].draw \in Used(records, arm, k)
      BY <1>1, <2>1 DEF Used
    <2>3. records[i].draw \in New
      BY <1>2 DEF Sampled
    <2> QED BY <2>2, <2>3
  <1>5. \A i, j \in DOMAIN R : R[i].draw = R[j].draw => i = j
    <2> SUFFICES ASSUME NEW i \in DOMAIN R, NEW j \in DOMAIN R, R[i].draw = R[j].draw PROVE i = j
      OBVIOUS
    <2>1. CASE i \in 1..l /\ j \in 1..l
      BY <1>1, <2>1 DEF Honest
    <2>2. CASE i \in (l + 1)..(l + n) /\ j \in (l + 1)..(l + n)
      <3>1. i - l \in 1..n /\ j - l \in 1..n
            /\ Draw(k, arm, offset, i - l) = Draw(k, arm, offset, j - l)
        BY <1>1, <1>2, <2>2
      <3>2. i - l = j - l
        BY <3>1 DEF Draw
      <3> QED BY <1>1, <2>2, <3>2
    <2>3. CASE i \in 1..l /\ j \in (l + 1)..(l + n)
      BY <1>1, <1>4, <2>3
    <2>4. CASE i \in (l + 1)..(l + n) /\ j \in 1..l
      BY <1>1, <1>4, <2>4
    <2> QED BY <1>1, <2>1, <2>2, <2>3, <2>4
  <1>6. ASSUME NEW i \in DOMAIN R
        PROVE  /\ R[i].draw \in DOMAIN tape
               /\ LET run == tape[R[i].draw] IN
                    /\ R[i].got = Outcome(run.passed)
                    /\ run.variant = Method.variant /\ run.arm = R[i].arm /\ run.step = R[i].step
    <2>1. CASE i \in 1..l
      BY <1>1, <2>1 DEF Honest
    <2>2. CASE i \in (l + 1)..(l + n)
      BY <1>1, <1>2, <1>3, <2>2
    <2> QED BY <1>1, <2>1, <2>2
  <1>7. Honest(Method, R)
    BY <1>5, <1>6 DEF Honest
  <1>8. Used(R, arm, k) = Used(records, arm, k) \cup New
    <2>1. ASSUME NEW d \in Used(R, arm, k) PROVE d \in Used(records, arm, k) \cup New
      <3>1. PICK i \in DOMAIN R : R[i].draw = d /\ R[i].arm = arm /\ R[i].step = k
        BY <2>1 DEF Used
      <3>2. CASE i \in 1..l
        BY <1>1, <3>1, <3>2 DEF Used
      <3>3. CASE i \in (l + 1)..(l + n)
        BY <1>1, <1>2, <3>1, <3>3 DEF Sampled
      <3> QED BY <1>1, <3>2, <3>3
    <2>2. ASSUME NEW d \in Used(records, arm, k) PROVE d \in Used(R, arm, k)
      BY <1>1, <2>2 DEF Used
    <2>3. ASSUME NEW i \in 1..n PROVE Draw(k, arm, offset, i) \in Used(R, arm, k)
      <3>1. l + i \in DOMAIN R /\ R[l + i] = batch[i]
        BY <1>1
      <3> QED BY <1>2, <3>1 DEF Used
    <2> QED BY <2>1, <2>2, <2>3 DEF Sampled
  <1>9. ASSUME NEW a, NEW j, a # arm \/ j # k PROVE Used(R, a, j) = Used(records, a, j)
    <2>1. ASSUME NEW d \in Used(R, a, j) PROVE d \in Used(records, a, j)
      <3>1. PICK i \in DOMAIN R : R[i].draw = d /\ R[i].arm = a /\ R[i].step = j
        BY <2>1 DEF Used
      <3>2. i \in 1..l
        BY <1>1, <1>2, <1>9, <3>1
      <3> QED BY <1>1, <3>1, <3>2 DEF Used
    <2>2. ASSUME NEW d \in Used(records, a, j) PROVE d \in Used(R, a, j)
      BY <1>1, <2>2 DEF Used
    <2> QED BY <2>1, <2>2
  <1> QED BY <1>1, <1>7, <1>8, <1>9 DEF R

-----------------------------------------------------------------------------
(* What the steps have in common.                                          *)
DiagInv ==
  /\ Typed /\ Phases /\ Taken /\ UnderWay /\ SharedIn /\ Untouched /\ Estimated /\ Answered
  /\ TapeIsReal /\ Counted /\ BuysWhatItNeeds

(* The method that runs is one of the plan's.                              *)
LEMMA MethodIsPlanned ==
  ASSUME Typed, Len(results) < Len(plan)
  PROVE  Method \in Methods /\ Len(results) + 1 \in DOMAIN plan
  BY DEF Typed, Method

(* An empty arm, before the first look.                                    *)
LEMMA ArmsAtTheStart ==
  ASSUME NEW m \in Methods, NEW k
  PROVE  /\ TreatedAt(m, k, 0) = NoArm /\ UndecidedBefore(m, k, 1)
         /\ m.mode # "shared" => ControlAt(m, k, 0) = NoArm
         /\ m.mode = "shared" => \A L : ControlAt(m, k, L) = ArmOf(SharedDraws(m))
         /\ 0 * Batch = 0 /\ 0 < MaxN /\ AtLook(0) = 0 /\ Width(0) = Take(NoArm)
  <1>1. TreatedAt(m, k, 0) = NoArm
    BY DueAtFirst, FS_EmptySet, ArmCounts DEF TreatedAt
  <1>2. UndecidedBefore(m, k, 1)
    BY DEF UndecidedBefore
  <1>3. m.mode # "shared" => ControlDraws(m, k, 0) = {}
    BY DueAtFirst DEF ControlDraws, Methods
  <1>4. m.mode # "shared" => ControlAt(m, k, 0) = NoArm
    BY <1>3, FS_EmptySet, ArmCounts DEF ControlAt
  <1>5. m.mode = "shared" => \A L : ControlAt(m, k, L) = ArmOf(SharedDraws(m))
    BY DEF ControlAt, ControlDraws
  <1>6. 0 * Batch = 0 /\ 0 < MaxN /\ AtLook(0) = 0 /\ Width(0) = Take(NoArm)
    BY DEF AtLook, Width, Take, NoArm
  <1> QED BY <1>1, <1>2, <1>4, <1>5, <1>6

(* The first batch of a step.                                              *)
LEMMA FirstBatch ==
  Take(NoArm) = Width(0) /\ NoArm.n = 0 /\ 0 * Batch = 0 /\ Width(0) \in Nat /\ 0 < MaxN
  <1>1. 0 * Batch = 0 /\ 0 < MaxN /\ NoArm.n = 0
    BY DEF NoArm
  <1>2. Width(0) \in Nat
    BY <1>1, BatchWidth
  <1> QED BY <1>1, <1>2 DEF Take, Width

(* A sample that was just asked for.                                       *)
LEMMA SampleIsAsked ==
  ASSUME Method \in Methods, UNCHANGED <<plan, results>>,
         NEW arm \in {"treated", "control"}, NEW k \in Nat, NEW n \in Nat, NEW offset \in Nat,
         batch' = Sample(k, arm, n, offset)
  PROVE  batch' \in Seq(Entries) /\ Asked(arm, k, n, offset)'
  <1>1. \A i \in 1..n : Draw(k, arm, offset, i) \in Draws
    BY DEF Draw, Draws, Methods
  <1>2. \A i \in 1..n :
          [draw |-> Draw(k, arm, offset, i), arm |-> arm, step |-> k, got |-> "owed"] \in Entries
    BY <1>1 DEF Entries
  <1>3. batch' \in Seq(Entries) /\ Len(batch') = n
    BY <1>2 DEF Sample
  <1>4. \A i \in 1..n :
          batch'[i] = [draw |-> Draw(k, arm, offset, i), arm |-> arm, step |-> k, got |-> "owed"]
    BY DEF Sample
  <1>5. \A i \in 1..n : Draw(k, arm, offset, i)' = Draw(k, arm, offset, i)
    BY DEF Draw, Method
  <1> QED BY <1>3, <1>4, <1>5 DEF Asked

(* The tape only grows: what it says of the finished methods stays said.   *)
LEMMA PastStays ==
  ASSUME DiagInv, Grows, UNCHANGED <<plan, results>>
  PROVE  Answered'
  <1> SUFFICES ASSUME NEW r \in DOMAIN results
               PROVE  /\ Honest(plan[r], results[r].records)'
                      /\ (results[r].blame = Blame(results[r].effects))'
                      /\ \A k \in Tested' : \E L \in Looks :
                           Settled(plan[r], results[r].records, k, results[r].effects[k], L)'
    BY DEF Answered
  <1>1. PICK m, a : m = plan[r] /\ a = results[r]
    OBVIOUS
  <1>2. m \in Methods
    BY <1>1 DEF DiagInv, Typed
  <1>3. Honest(m, a.records) /\ a.blame = Blame(a.effects)
    BY <1>1 DEF DiagInv, Answered
  <1>4. Honest(m, a.records)'
    BY <1>3, HonestStays
  <1>5. ASSUME NEW k \in Tested PROVE \E L \in Looks : Settled(m, a.records, k, a.effects[k], L)'
    <2>1. PICK L \in Looks : Settled(m, a.records, k, a.effects[k], L)
      BY <1>1 DEF DiagInv, Answered
    <2>2. Settled(m, a.records, k, a.effects[k], L)'
      BY <1>2, <1>3, <2>1, SettledStays
    <2> QED BY <2>2
  <1>6. Tested' = Tested
    BY ArmsStay
  <1>7. m = plan'[r] /\ a = results'[r]
    BY <1>1
  <1> QED BY <1>3, <1>4, <1>5, <1>6, <1>7

(* So does what it says of the steps of this one, as long as no draw of    *)
(* theirs is counted again.                                                *)
LEMMA EstimatesStay ==
  ASSUME DiagInv, Grows, phase # "idle", UNCHANGED <<plan, results>>,
         \A k \in DOMAIN effects :
           /\ Used(records', "treated", k) = Used(records, "treated", k)
           /\ Method.mode = "shared" =>
                Used(records', "control", Min(Tested)) = Used(records, "control", Min(Tested))
           /\ Method.mode = "per_step" => Used(records', "control", k) = Used(records, "control", k)
  PROVE  \A k \in DOMAIN effects : \A e : e = effects[k] =>
           \E L \in Looks : Settled(Method, records, k, e, L)'
  <1> SUFFICES ASSUME NEW k \in DOMAIN effects, NEW e, e = effects[k]
               PROVE  \E L \in Looks : Settled(Method, records, k, e, L)'
    OBVIOUS
  <1>1. PICK m, draws, new : m = Method /\ draws = records /\ new = records'
    OBVIOUS
  <1>2. m \in Methods /\ Honest(m, draws)
    BY <1>1, MethodIsPlanned DEF DiagInv, Phases, Counted
  <1>3. PICK L \in Looks : Settled(m, draws, k, e, L)
    BY <1>1 DEF DiagInv, Estimated
  <1>4. Settled(m, draws, k, e, L)'
    BY <1>2, <1>3, SettledStays
  <1>5. Tested' = Tested
    BY ArmsStay
  <1>6. Settled(m, new, k, e, L)'
    BY <1>1, <1>4, <1>5 DEF Settled
  <1>7. m = Method'
    BY <1>1 DEF Method
  <1> QED BY <1>1, <1>6, <1>7

(* Nothing on the tape was bought for nothing.                             *)
LEMMA BoughtStays ==
  ASSUME DiagInv, Grows, UNCHANGED plan, NEW d \in DOMAIN tape
  PROVE  \E i \in DOMAIN plan : Needed(plan[i], d)'
  <1>1. PICK i \in DOMAIN plan : Needed(plan[i], d)
    BY DEF DiagInv, BuysWhatItNeeds
  <1>2. PICK m : m = plan[i]
    OBVIOUS
  <1>3. m \in Methods
    BY <1>2 DEF DiagInv, Typed
  <1>4. Needed(m, d)'
    BY <1>1, <1>2, <1>3, NeededStays
  <1>5. m = plan'[i]
    BY <1>2
  <1> QED BY <1>4, <1>5

(* The state of the step under way, while the tape grows.                  *)
LEMMA StandsStill ==
  ASSUME Grows, UNCHANGED <<treated, control, looks, records>>,
         NEW m \in Methods, NEW k, NEW tl \in Nat, NEW cl \in Nat,
         looks \in Nat, looks <= tl, looks <= cl, Honest(m, records), Stands(m, k, tl, cl),
         m.mode = "shared" => Used(records, "control", Min(Tested)) = SharedDraws(m)
  PROVE  Stands(m, k, tl, cl)'
  <1>1. PICK draws : draws = records
    OBVIOUS
  <1>2. DueDraws(m, "treated", k, tl) \subseteq DOMAIN tape
    BY <1>1, UsedAreOnTape DEF Stands
  <1>3. ControlDraws(m, k, cl) \subseteq DOMAIN tape
    BY <1>1, UsedAreOnTape DEF Stands, ControlDraws, Methods
  <1>4. TreatedAt(m, k, tl)' = TreatedAt(m, k, tl) /\ ControlAt(m, k, cl)' = ControlAt(m, k, cl)
    BY <1>2, <1>3, ArmsStay
  <1>5. UndecidedBefore(m, k, looks + 1)'
    <2>1. PICK j : j = looks
      OBVIOUS
    <2>2. j \in Nat /\ j \in 0..tl /\ j \in 0..cl
      BY <2>1
    <2>3. DueDraws(m, "treated", k, j) \cup ControlDraws(m, k, j) \subseteq DOMAIN tape
      BY <1>2, <1>3, <2>2, DueStays, ControlStays
    <2>4. UndecidedBefore(m, k, j + 1)' <=> UndecidedBefore(m, k, j + 1)
      BY <2>2, <2>3, UndecidedStays
    <2>5. j = looks'
      BY <2>1
    <2> QED BY <2>1, <2>4, <2>5 DEF Stands
  <1> QED BY <1>4, <1>5 DEF Stands

(* A step that is begun: its arms are empty, but for a shared control.     *)
LEMMA StepBegins ==
  ASSUME Grows, NEW m \in Methods, NEW c, Method' = m, Min(todo') = c,
         phase' = "treated", looks' = 0, treated' = NoArm,
         Used(records', "treated", c) = {},
         m.mode = "per_step" => Used(records', "control", c) = {},
         m.mode # "shared" => control' = NoArm,
         m.mode = "shared" => control' = ArmOf(SharedDraws(m))'
  PROVE  UnderWay'
  <1>1. TreatedLook' = 0 /\ ControlLook' = 0
    BY DEF TreatedLook, ControlLook
  <1>2. /\ TreatedAt(m, c, 0)' = NoArm /\ UndecidedBefore(m, c, 1)'
        /\ m.mode # "shared" => ControlAt(m, c, 0)' = NoArm
        /\ m.mode = "shared" => ControlAt(m, c, 0)' = ArmOf(SharedDraws(m))'
    <2>1. DueDraws(m, "treated", c, 0) \subseteq DOMAIN tape
      BY DueAtFirst
    <2>2. m.mode # "shared" => ControlDraws(m, c, 0) \subseteq DOMAIN tape
      BY DueAtFirst DEF ControlDraws, Methods
    <2>3. m.mode = "shared" => ControlAt(m, c, 0)' = ArmOf(SharedDraws(m))'
      BY DEF ControlAt, ControlDraws
    <2>4. UndecidedBefore(m, c, 1)'
      BY DEF UndecidedBefore
    <2> QED BY <2>1, <2>2, <2>3, <2>4, ArmsAtTheStart, ArmsStay
  <1>3. 0 * Batch = 0 /\ 0 < MaxN /\ AtLook(0) = 0
    BY ArmsAtTheStart
  <1>4. Stands(m, c, 0, 0)'
    <2>1. (looks + 1)' = 1 /\ NoArm.n = 0
      BY DEF NoArm
    <2>2. UndecidedBefore(m, c, looks + 1)'
      BY <1>2, <2>1
    <2> QED BY <1>2, <1>3, <2>1, <2>2, DueAtFirst DEF Stands
  <1>5. (looks * Batch < MaxN)'
    BY <1>3
  <1> QED BY <1>1, <1>4, <1>5 DEF UnderWay

-----------------------------------------------------------------------------
(* The draws of a sample.                                                  *)

(* A sample is taken for an arm at a step.                                 *)
LEMMA SampleUnderWay ==
  ASSUME DiagInv, NEW i \in DOMAIN batch
  PROVE  /\ phase \in {"shared", "treated", "beside"}
         /\ Method \in Methods
         /\ \E arm, k, n, offset :
              /\ Asked(arm, k, n, offset) /\ i \in 1..n
              /\ \A a, c, w, o : Asked(a, c, w, o) => w = n
  <1>1. phase \in {"shared", "treated", "beside"}
    BY DEF DiagInv, Typed, Phases
  <1>2. Method \in Methods
    BY <1>1, MethodIsPlanned DEF DiagInv, Phases
  <1>3. \A a, c, w, o : Asked(a, c, w, o) => w = Len(batch)
    BY DEF Asked
  <1>4. i \in 1..Len(batch)
    BY DEF DiagInv, Typed
  <1> QED BY <1>1, <1>2, <1>3, <1>4 DEF DiagInv, Taken

(* Who is asked for a draw that is not on the tape needs it: it is of the  *)
(* shared control, or of the batch after a look that decided nothing.      *)
LEMMA NextDrawIsNeeded ==
  ASSUME DiagInv, NEW i \in DOMAIN batch
  PROVE  Needed(Method, batch[i].draw)
  <1> USE DEF DiagInv
  <1>1. PICK m, d, c, L : m = Method /\ d = batch[i].draw /\ c = Min(todo) /\ L = looks
    OBVIOUS
  <1>2. m \in Methods /\ phase \in {"shared", "treated", "beside"}
    BY <1>1, SampleUnderWay
  <1>3. CASE phase = "shared"
    <2>1. i \in 1..MaxN /\ d = Draw(Min(Tested), "control", 0, i) /\ m.mode = "shared"
      BY <1>1, <1>3 DEF Taken, Asked, Phases, Typed
    <2>2. d \in SharedDraws(m)
      BY <1>1, <2>1 DEF SharedDraws, Draw, DrawOf
    <2> QED BY <1>1, <2>1, <2>2 DEF Needed
  <1>4. CASE phase # "shared"
    <2>1. Sampling /\ phase # "idle"
      BY <1>2, <1>4 DEF Sampling
    <2>2. c \in Tested /\ L \in Nat /\ L * Batch < MaxN
      BY <1>1, <1>2, <2>1, TestedSteps, EarliestIsIn DEF Typed, Phases, UnderWay
    <2>3. L + 1 \in Looks /\ (L + 1) - 1 = L /\ L + 1 \in Nat /\ L \in 0..(L + 1)
      BY <2>2, LooksPlanned
    <2>4. Stands(m, c, TreatedLook, ControlLook) /\ UndecidedBefore(m, c, L + 1)
      BY <1>1, <2>1 DEF UnderWay, Stands
    <2>5. PICK draws : draws = records
      OBVIOUS
    <2>6. Honest(m, draws)
      BY <1>1, <2>1, <2>5 DEF Counted
    <2>7. DueDraws(m, "treated", c, L) \subseteq DOMAIN tape
      <3>1. DueDraws(m, "treated", c, TreatedLook) \subseteq DOMAIN tape
        BY <2>4, <2>5, <2>6, UsedAreOnTape DEF Stands
      <3>2. TreatedLook = L \/ TreatedLook = L + 1
        BY <1>1 DEF TreatedLook
      <3>3. DueDraws(m, "treated", c, L) \subseteq DueDraws(m, "treated", c, L + 1)
        BY <2>3, DueStays
      <3> QED BY <3>1, <3>2, <3>3
    <2>8. ControlDraws(m, c, L) \subseteq DOMAIN tape
      <3>1. ControlLook = L
        BY <1>1, <1>2 DEF ControlLook
      <3>2. CASE m.mode = "shared"
        BY <1>1, <2>1, <2>5, <2>6, <3>2, UsedAreOnTape DEF SharedIn, ControlDraws
      <3>3. CASE m.mode = "per_step"
        BY <2>4, <2>5, <2>6, <3>1, <3>3, UsedAreOnTape DEF Stands, ControlDraws
      <3>4. CASE m.mode = "none"
        BY <3>4 DEF ControlDraws
      <3> QED BY <1>2, <3>2, <3>3, <3>4 DEF Methods
    <2>9. \E arm \in {"treated", "control"} :
            /\ d \in DueDraws(m, arm, c, L + 1)
            /\ arm = "control" => m.mode = "per_step"
      <3>1. PICK arm \in {"treated", "control"} :
              /\ Asked(arm, c, Width(L), L * Batch)
              /\ arm = "control" => m.mode = "per_step"
        BY <1>1, <1>2, <1>4 DEF Taken, Phases
      <3>2. i \in 1..Width(L) /\ d = Draw(c, arm, L * Batch, i)
        BY <1>1, <3>1 DEF Asked, Typed
      <3>3. d = DrawOf(m, arm, c, L * Batch, i)
        BY <1>1, <3>2 DEF Draw, DrawOf
      <3>4. d \in BatchOf(m, arm, c, L)
        BY <3>2, <3>3 DEF BatchOf
      <3> QED BY <2>2, <3>1, <3>4, DueWithTheBatch
    <2>10. /\ d \in DueDraws(m, "treated", c, L + 1)
                      \cup (IF m.mode = "per_step" THEN DueDraws(m, "control", c, L + 1) ELSE {})
           /\ \A b \in DueDraws(m, "treated", c, (L + 1) - 1) \cup ControlDraws(m, c, (L + 1) - 1) :
                b \in DOMAIN tape
      BY <2>3, <2>7, <2>8, <2>9
    <2>11. Needed(m, d)
      BY <2>2, <2>3, <2>4, <2>10 DEF Needed
    <2> QED BY <1>1, <2>11
  <1> QED BY <1>3, <1>4

(* What is known of the records and the arms stays while draws come in.    *)
LEMMA DrawsKeep ==
  ASSUME DiagInv, Grows, phase # "idle",
         UNCHANGED <<plan, results, phase, todo, treated, control, looks, records, effects>>
  PROVE  UnderWay' /\ SharedIn' /\ Untouched' /\ Estimated' /\ Answered' /\ Counted'
  <1> USE DEF DiagInv
  <1>1. PICK m, c, L, draws : m = Method /\ c = Min(todo) /\ L = looks /\ draws = records
    OBVIOUS
  <1>2. /\ m = Method' /\ c = Min(todo)' /\ L = looks' /\ draws = records'
        /\ TreatedLook' = TreatedLook /\ ControlLook' = ControlLook /\ Sampling' = Sampling
    BY <1>1 DEF Method, TreatedLook, ControlLook, Sampling
  <1>3. m \in Methods /\ Honest(m, draws) /\ L \in Nat
    BY <1>1, MethodIsPlanned DEF Phases, Counted, Typed
  <1>4. Counted'
    BY <1>2, <1>3, HonestStays DEF Counted
  <1>5. Answered' /\ Estimated'
    BY PastStays, EstimatesStay DEF Estimated
  <1>6. Tested' = Tested /\ SharedDraws(m)' = SharedDraws(m)
    BY ArmsStay
  <1>7. SharedIn'
    <2>1. SUFFICES ASSUME (Sampling \/ phase = "blame") /\ m.mode = "shared"
                   PROVE  /\ control.n = MaxN /\ control = ArmOf(SharedDraws(m))'
                          /\ Used(draws, "control", Min(Tested)) = SharedDraws(m)
      BY <1>2, <1>6 DEF SharedIn
    <2>2. /\ control.n = MaxN /\ control = ArmOf(SharedDraws(m))
          /\ Used(draws, "control", Min(Tested)) = SharedDraws(m)
      BY <1>1, <2>1 DEF SharedIn
    <2>3. SharedDraws(m) \subseteq DOMAIN tape
      BY <1>3, <2>2, UsedAreOnTape
    <2>4. PICK D : D = SharedDraws(m)
      OBVIOUS
    <2>5. ArmOf(D)' = ArmOf(D) /\ D = SharedDraws(m)'
      BY <1>6, <2>3, <2>4, ArmStays
    <2> QED BY <2>2, <2>4, <2>5
  <1>8. UnderWay'
    <2>1. SUFFICES ASSUME Sampling PROVE UnderWay'
      BY <1>2 DEF UnderWay
    <2>2. PICK tl, cl : tl = TreatedLook /\ cl = ControlLook
      OBVIOUS
    <2>3. tl \in Nat /\ cl \in Nat /\ looks <= tl /\ looks <= cl
      BY <1>1, <1>3, <2>2 DEF TreatedLook, ControlLook
    <2>4. looks * Batch < MaxN /\ Stands(m, c, tl, cl)
      BY <1>1, <2>1, <2>2 DEF UnderWay
    <2>5. m.mode = "shared" => Used(records, "control", Min(Tested)) = SharedDraws(m)
      BY <1>1, <2>1 DEF SharedIn
    <2>6. Stands(m, c, tl, cl)'
      BY <1>1, <1>3, <2>3, <2>4, <2>5, StandsStill
    <2> QED BY <1>2, <2>2, <2>4, <2>6 DEF UnderWay
  <1>9. Untouched'
    BY <1>1, <1>2 DEF Untouched
  <1> QED BY <1>4, <1>5, <1>7, <1>8, <1>9

(* A draw comes in, or fails: the sample stays the one asked for, and what *)
(* is on the tape is what was run.                                         *)
LEMMA DrawStep ==
  ASSUME DiagInv, NEW i \in DOMAIN batch, Reuse(i) \/ Buy(i) \/ DrawFails(i)
  PROVE  DiagInv'
  <1>1. /\ phase \in {"shared", "treated", "beside"} /\ Method \in Methods
        /\ UNCHANGED <<ranking, plan, results, phase, todo, treated, control, looks,
           records, effects>>
    BY SampleUnderWay DEF Reuse, Buy, DrawFails
  <1>2. PICK got \in {"pass", "fail", "failed"} :
          /\ batch' = [batch EXCEPT ![i].got = got]
          /\ \/ /\ tape' = tape /\ got # "failed"
                /\ batch[i].draw \in DOMAIN tape /\ got = Outcome(tape[batch[i].draw].passed)
             \/ tape' = tape /\ got = "failed"
             \/ /\ got # "failed" /\ batch[i].draw \notin DOMAIN tape
                /\ \E passed \in BOOLEAN :
                     /\ got = Outcome(passed)
                     /\ tape' = Enter(tape, batch[i].draw,
                          [passed |-> passed, variant |-> Method.variant,
                           arm |-> batch[i].arm, step |-> batch[i].step])
    BY DEF Reuse, Buy, DrawFails, Outcome
  <1>3. Grows
    BY <1>1, <1>2 DEF Grows, Enter
  <1>4. \A a, c, w, o : Asked(a, c, w, o) => Asked(a, c, w, o)'
    <2> SUFFICES ASSUME NEW a, NEW c, NEW w, NEW o, Asked(a, c, w, o) PROVE Asked(a, c, w, o)'
      OBVIOUS
    <2>1. /\ Len(batch') = Len(batch) /\ DOMAIN batch = 1..w
          /\ \A j \in 1..w : j # i => batch'[j] = batch[j]
          /\ batch'[i] = [batch[i] EXCEPT !.got = got]
      BY <1>2 DEF Asked, DiagInv, Typed
    <2>2. /\ batch'[i].draw = batch[i].draw /\ batch'[i].arm = batch[i].arm
          /\ batch'[i].step = batch[i].step /\ batch'[i].got = got
      BY <2>1 DEF DiagInv, Typed, Entries
    <2>3. \A j \in 1..w : Draw(c, a, o, j)' = Draw(c, a, o, j)
      BY <1>1 DEF Draw, Method
    <2>4. got # "failed" => /\ batch[i].draw \in DOMAIN tape'
                            /\ got = Outcome(tape'[batch[i].draw].passed)
      BY <1>2 DEF Enter
    <2>5. \A j \in 1..w : batch[j].draw \in DOMAIN tape =>
            batch[j].draw \in DOMAIN tape' /\ tape'[batch[j].draw] = tape[batch[j].draw]
      BY <1>3 DEF Grows
    <2>6. ASSUME NEW j \in 1..w
          PROVE  /\ batch'[j].draw = Draw(c, a, o, j)' /\ batch'[j].arm = a /\ batch'[j].step = c
                 /\ batch'[j].got \in {"pass", "fail"} =>
                      /\ batch'[j].draw \in DOMAIN tape'
                      /\ batch'[j].got = Outcome(tape'[batch'[j].draw].passed)
      <3>1. CASE j = i
        BY <2>2, <2>3, <2>4, <3>1 DEF Asked
      <3>2. CASE j # i
        BY <2>1, <2>3, <2>5, <3>2 DEF Asked
      <3> QED BY <3>1, <3>2
    <2>7. Len(batch') = w
      BY <2>1 DEF Asked
    <2> QED BY <2>6, <2>7 DEF Asked
  <1>5. Typed'
    <2>1. batch' \in Seq(Entries)
      <3>1. batch \in Seq(Entries) /\ batch[i] \in Entries
        BY DEF DiagInv, Typed
      <3>2. [batch[i] EXCEPT !.got = got] \in Entries
        BY <3>1 DEF Entries
      <3>3. batch' = [batch EXCEPT ![i] = [batch[i] EXCEPT !.got = got]]
        BY <1>2
      <3> QED BY <3>1, <3>2, <3>3
    <2>2. faults' \in 0..MaxFaults
      BY DEF Reuse, Buy, DrawFails, DiagInv, Typed
    <2>3. Tested' = Tested /\ Answers' = Answers
      BY <1>1 DEF Tested, Shortlist, Answers
    <2> QED BY <1>1, <2>1, <2>2, <2>3 DEF DiagInv, Typed
  <1>6. Phases'
    BY <1>1 DEF DiagInv, Phases, Method, Tested, Shortlist
  <1>7. Taken'
    BY <1>1, <1>4 DEF DiagInv, Taken, Tested, Shortlist
  <1>8. TapeIsReal'
    <2>1. CASE tape' = tape
      BY <2>1 DEF DiagInv, TapeIsReal
    <2>2. CASE tape' # tape
      <3>1. PICK arm, k, n, offset : Asked(arm, k, n, offset) /\ i \in 1..n
        BY SampleUnderWay
      <3>2. /\ batch[i].draw.variant = Method.variant
            /\ batch[i].draw.arm = batch[i].arm /\ batch[i].draw.step = batch[i].step
        <4>1. /\ batch[i].draw = Draw(k, arm, offset, i)
              /\ batch[i].arm = arm /\ batch[i].step = k
          BY <3>1 DEF Asked
        <4>2. /\ Draw(k, arm, offset, i).variant = Method.variant
              /\ Draw(k, arm, offset, i).arm = arm /\ Draw(k, arm, offset, i).step = k
          BY DEF Draw
        <4> QED BY <4>1, <4>2
      <3> QED BY <1>2, <2>2, <3>2 DEF DiagInv, TapeIsReal, Enter
    <2> QED BY <2>1, <2>2
  <1>9. BuysWhatItNeeds'
    <2> SUFFICES ASSUME NEW d \in DOMAIN tape'
                 PROVE  \E j \in DOMAIN plan : Needed(plan[j], d)'
      BY <1>1 DEF BuysWhatItNeeds
    <2>1. CASE d \in DOMAIN tape
      BY <1>1, <1>3, <2>1, BoughtStays
    <2>2. CASE d \notin DOMAIN tape
      <3>1. d = batch[i].draw
        BY <1>2, <2>2 DEF Enter
      <3>2. PICK m, j : m = Method /\ j = Len(results) + 1
        OBVIOUS
      <3>3. Needed(m, d)
        BY <3>1, <3>2, NextDrawIsNeeded
      <3>4. Needed(m, d)'
        BY <1>1, <1>3, <3>2, <3>3, NeededStays
      <3>5. j \in DOMAIN plan /\ m = plan[j] /\ m = plan'[j]
        BY <1>1, <3>2, MethodIsPlanned DEF DiagInv, Phases, Method
      <3> QED BY <3>4, <3>5
    <2> QED BY <2>1, <2>2
  <1>10. UnderWay' /\ SharedIn' /\ Untouched' /\ Estimated' /\ Answered' /\ Counted'
    BY <1>1, <1>3, DrawsKeep
  <1> QED BY <1>5, <1>6, <1>7, <1>8, <1>9, <1>10 DEF DiagInv

-----------------------------------------------------------------------------
(* The start, a loss, and a method that begins or ends.                    *)
LEMMA NothingCounted ==
  /\ \A arm, k : Used(<< >>, arm, k) = {}
  /\ \A m : Honest(m, << >>)
  /\ << >> \in Seq(Entries)
  BY DEF Used, Honest

(* The invariant holds before the first method.                            *)
LEMMA DiagStart == Init => DiagInv
  <1> SUFFICES ASSUME Init PROVE DiagInv
    OBVIOUS
  <1> USE DEF Init
  <1>1. Typed
    <2>1. [ranking |-> ranking, plan |-> plan] \in Evaluations
      <3>1. PICK e \in Evaluations : ranking = e.ranking /\ plan = e.plan
        OBVIOUS
      <3>2. e \in [ranking : Seq(Nat), plan : Seq(Methods)]
        OBVIOUS
      <3>3. e = [ranking |-> e.ranking, plan |-> e.plan]
        BY <3>2
      <3> QED BY <3>1, <3>3
    <2>2. ranking \in Seq(Nat) /\ plan \in Seq(Methods)
      BY <2>1
    <2>3. effects \in [DOMAIN effects -> Verdicts] /\ NoArm \in Arms
      BY DEF NoEffects, NoArm, Arms
    <2> QED BY <2>1, <2>2, <2>3 DEF Typed
  <1>2. Phases
    BY DEF Phases, NoEffects
  <1>3. Taken /\ UnderWay /\ SharedIn /\ Untouched /\ TapeIsReal /\ Counted /\ BuysWhatItNeeds
    BY DEF Taken, UnderWay, SharedIn, Untouched, TapeIsReal, Counted, BuysWhatItNeeds, Sampling
  <1>4. Estimated /\ Answered
    BY DEF Estimated, Answered, NoEffects
  <1> QED BY <1>1, <1>2, <1>3, <1>4 DEF DiagInv

(* While the tape stays as it is, so does what is said of it.              *)
LEMMA SameTape ==
  ASSUME DiagInv, UNCHANGED <<ranking, plan, tape>>
  PROVE  /\ Grows /\ TapeIsReal' /\ BuysWhatItNeeds'
         /\ Tested' = Tested /\ Answers' = Answers
         /\ UNCHANGED results => Answered'
  <1>1. Grows
    BY DEF Grows
  <1>2. TapeIsReal'
    BY DEF DiagInv, TapeIsReal
  <1>3. BuysWhatItNeeds'
    BY <1>1, BoughtStays DEF BuysWhatItNeeds
  <1>4. Tested' = Tested /\ Answers' = Answers
    BY DEF Tested, Shortlist, Answers
  <1> QED BY <1>1, <1>2, <1>3, <1>4, PastStays

(* A diagnosis that is lost leaves the tape, and the answers given.        *)
LEMMA LoseStep ==
  ASSUME DiagInv, Lose, faults' \in 0..MaxFaults
  PROVE  DiagInv'
  <1> USE DEF Lose
  <1>1. TapeIsReal' /\ BuysWhatItNeeds' /\ Tested' = Tested /\ Answers' = Answers
    BY SameTape
  <1>2. Typed'
    <2>1. effects' \in [DOMAIN effects' -> Verdicts] /\ NoArm \in Arms
      BY DEF NoEffects, NoArm, Arms
    <2> QED BY <1>1, <2>1 DEF DiagInv, Typed
  <1>3. Phases'
    BY DEF Phases, NoEffects
  <1>4. Taken' /\ UnderWay' /\ SharedIn' /\ Untouched' /\ Counted'
    BY DEF Taken, UnderWay, SharedIn, Untouched, Counted, Sampling
  <1>5. Estimated' /\ Answered'
    BY DEF Estimated, Answered, NoEffects
  <1> QED BY <1>1, <1>2, <1>3, <1>4, <1>5 DEF DiagInv

(* A method's answer, when it is what its draws say.                       *)
LEMMA AnswerIsKept ==
  ASSUME DiagInv, Len(results) < Len(plan), UNCHANGED <<ranking, plan, tape>>,
         NEW a \in Answers, results' = Append(results, a),
         Honest(Method, a.records), a.blame = Blame(a.effects),
         \A k \in Tested : \E L \in Looks : Settled(Method, a.records, k, a.effects[k], L)
  PROVE  Answered' /\ results' \in Seq(Answers) /\ Len(results') <= Len(plan)
  <1>1. /\ results' \in Seq(Answers) /\ Len(results') = Len(results) + 1
        /\ \A r \in DOMAIN results : r \in DOMAIN results' /\ results'[r] = results[r]
        /\ results'[Len(results) + 1] = a
        /\ \A r \in DOMAIN results' : r \in DOMAIN results \/ r = Len(results) + 1
        /\ Len(results) \in Nat /\ Len(plan) \in Nat
    BY DEF DiagInv, Typed
  <1>2. Grows /\ Tested' = Tested
    BY SameTape
  <1>3. PICK m : m = Method
    OBVIOUS
  <1>4. m \in Methods /\ m = plan'[Len(results) + 1]
    BY <1>3, MethodIsPlanned DEF DiagInv, Method
  <1>5. ASSUME NEW r \in DOMAIN results'
        PROVE  /\ Honest(plan[r], results[r].records)'
               /\ (results[r].blame = Blame(results[r].effects))'
               /\ \A k \in Tested : \E L \in Looks :
                    Settled(plan[r], results[r].records, k, results[r].effects[k], L)'
    <2>1. PICK p, b : p = plan'[r] /\ b = results'[r]
      OBVIOUS
    <2>2. /\ p \in Methods /\ Honest(p, b.records) /\ b.blame = Blame(b.effects)
          /\ \A k \in Tested : \E L \in Looks : Settled(p, b.records, k, b.effects[k], L)
      <3>1. CASE r \in DOMAIN results
        <4>1. p = plan[r] /\ b = results[r] /\ p \in Methods
          BY <1>1, <2>1, <3>1 DEF DiagInv, Typed
        <4> QED BY <3>1, <4>1 DEF DiagInv, Answered
      <3>2. CASE r = Len(results) + 1
        BY <1>1, <1>3, <1>4, <2>1, <3>2
      <3> QED BY <1>1, <3>1, <3>2
    <2>3. Honest(p, b.records)'
      BY <1>2, <2>2, HonestStays
    <2>4. ASSUME NEW k \in Tested PROVE \E L \in Looks : Settled(p, b.records, k, b.effects[k], L)'
      <3>1. PICK L \in Looks : Settled(p, b.records, k, b.effects[k], L)
        BY <2>2
      <3>2. Settled(p, b.records, k, b.effects[k], L)'
        BY <1>2, <2>2, <3>1, SettledStays
      <3> QED BY <3>2
    <2> QED BY <2>1, <2>2, <2>3, <2>4
  <1> QED BY <1>1, <1>2, <1>5 DEF Answered

(* A method without a suspect to test answers from no draws.               *)
LEMMA NothingToTestStep ==
  ASSUME DiagInv, NothingToTest
  PROVE  DiagInv'
  <1> USE DEF NothingToTest
  <1> DEFINE a == [blame |-> NoStep, records |-> << >>, effects |-> NoEffects]
  <1>1. TapeIsReal' /\ BuysWhatItNeeds' /\ Tested' = Tested /\ Answers' = Answers
    BY SameTape
  <1>2. Len(results) < Len(plan)
    BY DEF DiagInv, Typed, Done
  <1>3. a \in Answers
    BY NothingCounted DEF Answers, NoEffects
  <1>4. a.blame = Blame(a.effects) /\ Honest(Method, a.records)
    BY NothingCounted DEF Blame, NoEffects
  <1>5. Answered' /\ results' \in Seq(Answers) /\ Len(results') <= Len(plan)
    <2> HIDE DEF a
    <2>1. results' = Append(results, a)
      BY DEF a
    <2> QED BY <1>2, <1>3, <1>4, <2>1, AnswerIsKept
  <1>6. Typed'
    BY <1>1, <1>5 DEF DiagInv, Typed
  <1>7. Phases'
    BY DEF DiagInv, Phases
  <1>8. Taken' /\ UnderWay' /\ SharedIn' /\ Untouched' /\ Counted'
    BY DEF DiagInv, Phases, Taken, UnderWay, SharedIn, Untouched, Counted, Sampling
  <1>9. Estimated'
    BY DEF DiagInv, Phases, Estimated
  <1> QED BY <1>1, <1>5, <1>6, <1>7, <1>8, <1>9 DEF DiagInv

(* The blame of a method is cast from settled steps.                       *)
LEMMA ConcludeStep ==
  ASSUME DiagInv, Conclude
  PROVE  DiagInv'
  <1> USE DEF Conclude
  <1> DEFINE a == [blame |-> Blame(effects), records |-> records, effects |-> effects]
  <1>1. TapeIsReal' /\ BuysWhatItNeeds' /\ Tested' = Tested /\ Answers' = Answers
    BY SameTape
  <1>2. /\ Len(results) < Len(plan) /\ DOMAIN effects = Tested
        /\ todo = {} /\ treated = NoArm /\ looks = 0 /\ batch = << >>
    BY DEF DiagInv, Phases
  <1>3. Blame(effects) \in Tested \cup {NoStep}
    <2> DEFINE worthy == {k \in DOMAIN effects : effects[k].reason = "blameworthy"}
    <2>1. worthy \subseteq Tested /\ worthy \subseteq Nat
      BY <1>2, TestedSteps
    <2>2. Blame(effects) = IF worthy = {} THEN NoStep ELSE Min(worthy)
      BY DEF Blame
    <2> HIDE DEF worthy
    <2> QED BY <2>1, <2>2, EarliestIsIn
  <1>4. a \in Answers
    BY <1>2, <1>3 DEF DiagInv, Typed, Answers
  <1>5. Honest(Method, a.records) /\ a.blame = Blame(a.effects)
    BY DEF DiagInv, Counted
  <1>6. \A k \in Tested : \E L \in Looks : Settled(Method, a.records, k, a.effects[k], L)
    BY <1>2 DEF DiagInv, Estimated
  <1>7. Answered' /\ results' \in Seq(Answers) /\ Len(results') <= Len(plan)
    <2> HIDE DEF a
    <2>1. results' = Append(results, a)
      BY DEF a
    <2> QED BY <1>2, <1>4, <1>5, <1>6, <2>1, AnswerIsKept
  <1>8. Typed'
    <2>1. effects' \in [DOMAIN effects' -> Verdicts] /\ NoArm \in Arms
      BY DEF NoEffects, NoArm, Arms
    <2> QED BY <1>1, <1>7, <2>1 DEF DiagInv, Typed
  <1>9. Phases'
    BY <1>2 DEF Phases, NoEffects
  <1>10. Taken' /\ UnderWay' /\ SharedIn' /\ Untouched' /\ Counted'
    BY <1>2 DEF Taken, UnderWay, SharedIn, Untouched, Counted, Sampling
  <1>11. Estimated'
    BY DEF Estimated, NoEffects
  <1> QED BY <1>1, <1>7, <1>8, <1>9, <1>10, <1>11 DEF DiagInv

-----------------------------------------------------------------------------
(* The steps between two samples.                                          *)
LEMMA BeginStep ==
  ASSUME DiagInv, Begin
  PROVE  DiagInv'
  <1> USE DEF Begin
  <1>1. TapeIsReal' /\ BuysWhatItNeeds' /\ Tested' = Tested /\ Answers' = Answers
        /\ Answered' /\ Grows
    BY SameTape
  <1>2. /\ Len(results) < Len(plan) /\ records = << >> /\ DOMAIN effects = {} /\ todo = {}
        /\ treated = NoArm /\ control = NoArm /\ looks = 0
    BY DEF DiagInv, Phases, Typed, Done
  <1>3. PICK m, c : m = Method /\ c = Min(Tested)
    OBVIOUS
  <1>4. m \in Methods /\ m = Method' /\ c \in Tested /\ c \in Nat /\ c = Min(Tested')
    BY <1>1, <1>2, <1>3, MethodIsPlanned, TestedSteps, EarliestIsIn DEF DiagInv, Method
  <1>5. Estimated' /\ Counted' /\ Untouched'
    <2>1. records' = << >> /\ DOMAIN effects' = {}
      BY <1>2
    <2>2. Counted'
      BY <2>1 DEF Counted, Honest
    <2> QED BY <2>1, <2>2, NothingCounted DEF Estimated, Untouched
  <1>6. CASE m.mode = "shared"
    <2>1. phase' = "shared" /\ batch' = Sample(c, "control", MaxN, 0)
      BY <1>3, <1>6
    <2>2. batch' \in Seq(Entries) /\ Asked("control", c, MaxN, 0)'
      BY <1>3, <1>4, <2>1, SampleIsAsked
    <2>3. Typed'
      BY <1>1, <2>1, <2>2 DEF DiagInv, Typed
    <2>4. Phases'
      BY <1>1, <1>2, <1>4, <1>6, <2>1 DEF Phases
    <2>5. Taken'
      BY <1>4, <2>1, <2>2 DEF Taken
    <2>6. UnderWay' /\ SharedIn'
      BY <2>1 DEF UnderWay, SharedIn, Sampling
    <2> QED BY <1>1, <1>5, <2>3, <2>4, <2>5, <2>6 DEF DiagInv
  <1>7. CASE m.mode # "shared"
    <2>1. phase' = "treated" /\ batch' = Sample(c, "treated", Take(NoArm), NoArm.n)
      BY <1>3, <1>7 DEF AskTreated
    <2>2. Take(NoArm) = Width(0) /\ NoArm.n = 0 /\ 0 * Batch = 0 /\ Width(0) \in Nat
      BY FirstBatch
    <2>3. batch' \in Seq(Entries) /\ Asked("treated", c, Width(0), 0 * Batch)'
      BY <1>3, <1>4, <2>1, <2>2, SampleIsAsked
    <2>4. Typed'
      BY <1>1, <2>1, <2>3 DEF DiagInv, Typed
    <2>5. Phases'
      BY <1>1, <1>2, <1>4, <1>7, <2>1 DEF Phases
    <2>6. Taken'
      BY <1>1, <1>2, <1>4, <2>1, <2>3 DEF Taken
    <2>7. UnderWay'
      BY <1>1, <1>2, <1>4, <1>7, <2>1, NothingCounted, StepBegins
    <2>8. SharedIn'
      BY <1>4, <1>7 DEF SharedIn
    <2> QED BY <1>1, <1>5, <2>4, <2>5, <2>6, <2>7, <2>8 DEF DiagInv
  <1> QED BY <1>6, <1>7

(* The shared control is in: the first step begins, with it beside.        *)
LEMMA FoldSharedStep ==
  ASSUME DiagInv, FoldShared
  PROVE  DiagInv'
  <1> USE DEF FoldShared, Recorded
  <1>1. TapeIsReal' /\ BuysWhatItNeeds' /\ Tested' = Tested /\ Answers' = Answers
        /\ Answered' /\ Grows
    BY SameTape
  <1>2. /\ Len(results) < Len(plan) /\ records = << >> /\ DOMAIN effects = {}
        /\ todo = Tested /\ todo # {} /\ treated = NoArm /\ control = NoArm /\ looks = 0
        /\ Method.mode = "shared"
    BY DEF DiagInv, Phases
  <1>3. PICK m, c : m = Method /\ c = Min(Tested)
    OBVIOUS
  <1>4. m \in Methods /\ m = Method' /\ c \in Tested /\ c \in Nat /\ c = Min(Tested')
        /\ c = Min(todo')
    BY <1>1, <1>2, <1>3, MethodIsPlanned, TestedSteps, EarliestIsIn DEF DiagInv, Method
  <1> DEFINE New == Sampled(c, "control", MaxN, 0)
  <1>5. /\ batch \in Seq(Entries) /\ records \in Seq(Entries) /\ AllIn /\ Honest(Method, records)
        /\ Asked("control", c, MaxN, 0) /\ MaxN \in Nat /\ TapeIsReal
    BY <1>3 DEF DiagInv, Typed, Counted, Taken
  <1>6. New = SharedDraws(m)
    BY <1>3 DEF SharedDraws, Draw, DrawOf, Sampled
  <1>7. /\ IsFiniteSet(New) /\ ArmOf(New).n = MaxN
        /\ \A a : Extended(a) = [n |-> a.n + ArmOf(New).n, s |-> a.s + ArmOf(New).s]
    BY <1>5, SampleCounts
  <1> HIDE DEF New
  <1>8. control' = ArmOf(SharedDraws(m)) /\ control'.n = MaxN /\ control' \in Arms
    <2>1. ArmOf(New).s \in Nat /\ ArmOf(New) = [n |-> ArmOf(New).n, s |-> ArmOf(New).s]
      BY <1>7, ArmCounts
    <2>2. control' = [n |-> NoArm.n + ArmOf(New).n, s |-> NoArm.s + ArmOf(New).s]
      BY <1>7
    <2>3. NoArm.n + ArmOf(New).n = ArmOf(New).n /\ NoArm.s + ArmOf(New).s = ArmOf(New).s
      BY <1>5, <1>7, <2>1 DEF NoArm
    <2>4. control' = ArmOf(New)
      BY <2>1, <2>2, <2>3
    <2>5. ArmOf(New) \in Arms
      BY <1>5, <1>7, <2>1 DEF Arms
    <2> QED BY <1>6, <1>7, <2>4, <2>5
  <1>9. /\ records' \in Seq(Entries) /\ Honest(m, records')
        /\ Used(records', "control", c) = SharedDraws(m)
        /\ \A k : Used(records', "treated", k) = {}
    <2>1. Used(records, "control", c) \cap New = {}
      BY <1>2, NothingCounted
    <2>2. PICK ctl, o : ctl = "control" /\ o = 0
      OBVIOUS
    <2>3. Used(records, ctl, c) \cap Sampled(c, ctl, MaxN, o) = {} /\ Asked(ctl, c, MaxN, o)
      BY <1>5, <2>1, <2>2 DEF New
    <2>4. /\ records \o batch \in Seq(Entries) /\ Honest(Method, records \o batch)
          /\ Used(records \o batch, ctl, c) = Used(records, ctl, c) \cup Sampled(c, ctl, MaxN, o)
          /\ \A a, j : a # ctl \/ j # c =>
               Used(records \o batch, a, j) = Used(records, a, j)
      BY <1>5, <2>3, SampleIsFolded
    <2>5. Sampled(c, ctl, MaxN, o) = SharedDraws(m)
      BY <1>6, <2>2 DEF New
    <2>6. records' = records \o batch
      OBVIOUS
    <2>7. \A a, j : Used(records, a, j) = {}
      BY <1>2, NothingCounted
    <2>8. Used(records', ctl, c) = SharedDraws(m)
      BY <2>4, <2>5, <2>6, <2>7
    <2>9. ASSUME NEW k PROVE Used(records', "treated", k) = {}
      <3>1. "treated" # ctl
        BY <2>2
      <3> QED BY <2>4, <2>6, <2>7, <3>1
    <2> QED BY <1>3, <2>2, <2>4, <2>6, <2>8, <2>9
  <1>10. phase' = "treated" /\ batch' = Sample(c, "treated", Take(NoArm), NoArm.n)
    BY <1>2, <1>3 DEF AskTreated
  <1>11. Take(NoArm) = Width(0) /\ NoArm.n = 0 /\ 0 * Batch = 0 /\ Width(0) \in Nat
    BY FirstBatch
  <1>12. batch' \in Seq(Entries) /\ Asked("treated", c, Width(0), 0 * Batch)'
    BY <1>3, <1>4, <1>10, <1>11, SampleIsAsked
  <1>13. Typed'
    BY <1>1, <1>8, <1>9, <1>10, <1>12 DEF DiagInv, Typed
  <1>14. Phases'
    BY <1>1, <1>2, <1>4, <1>10 DEF Phases
  <1>15. Taken'
    BY <1>1, <1>2, <1>4, <1>10, <1>12 DEF Taken
  <1>16. SharedDraws(m)' = SharedDraws(m) /\ ArmOf(SharedDraws(m))' = ArmOf(SharedDraws(m))
    <2>1. SharedDraws(m)' = SharedDraws(m)
      BY <1>1, ArmsStay
    <2> QED BY <2>1 DEF ArmOf
  <1>17. UnderWay'
    BY <1>1, <1>2, <1>3, <1>4, <1>8, <1>9, <1>10, <1>16, StepBegins
  <1>18. SharedIn'
    BY <1>4, <1>8, <1>9, <1>16 DEF SharedIn
  <1>19. Untouched' /\ Estimated'
    BY <1>2, <1>3, <1>4, <1>9 DEF Untouched, Estimated
  <1>20. Counted'
    <2>1. PICK new : new = records'
      OBVIOUS
    <2>2. Honest(m, new)'
      BY <1>1, <1>9, <2>1, HonestStays
    <2> QED BY <1>4, <2>1, <2>2 DEF Counted
  <1> QED BY <1>1, <1>13, <1>14, <1>15, <1>17, <1>18, <1>19, <1>20 DEF DiagInv

(* The batch of an arm is in: the arm is at the next look.                 *)
LEMMA BatchIsFolded ==
  ASSUME DiagInv, AllIn, NEW arm, NEW m, NEW c, NEW L, NEW A,
         m = Method, c = Min(todo), L = looks,
         \/ phase = "treated" /\ arm = "treated" /\ A = treated
         \/ phase = "beside" /\ arm = "control" /\ A = control
  PROVE  /\ records \o batch \in Seq(Entries) /\ Honest(m, records \o batch)
         /\ Used(records \o batch, arm, c) = DueDraws(m, arm, c, L + 1)
         /\ \A a, j : a # arm \/ j # c => Used(records \o batch, a, j) = Used(records, a, j)
         /\ Extended(A) = ArmOf(DueDraws(m, arm, c, L + 1)) /\ Extended(A) \in Arms
         /\ Extended(A).n = AtLook(L + 1)
  <1> DEFINE New == Sampled(c, arm, Width(L), L * Batch)
             Old == DueDraws(m, arm, c, L)
  <1>1. L \in Nat /\ L * Batch < MaxN
    BY DEF DiagInv, Typed, UnderWay, Sampling
  <1>2. Stands(m, c, TreatedLook, ControlLook) /\ ControlLook = L
        /\ (arm = "treated" => TreatedLook = L) /\ (arm = "control" => m.mode = "per_step")
    BY DEF DiagInv, Typed, UnderWay, Sampling, TreatedLook, ControlLook, Phases
  <1>3. Used(records, arm, c) = Old /\ A = ArmOf(Old) /\ A.n = L * Batch
    <2>1. AtLook(L) = L * Batch
      BY <1>1, BatchWidth
    <2>2. CASE arm = "treated"
      BY <1>2, <2>1, <2>2 DEF Stands, TreatedAt
    <2>3. CASE arm = "control"
      BY <1>2, <2>1, <2>3 DEF Stands, ControlAt, ControlDraws
    <2> QED BY <2>2, <2>3
  <1>4. New = BatchOf(m, arm, c, L)
    BY DEF Draw, DrawOf, Sampled, BatchOf
  <1>5. DueDraws(m, arm, c, L + 1) = Old \cup New /\ Old \cap New = {}
    <2> HIDE DEF New
    <2> QED BY <1>1, <1>4, DueWithTheBatch
  <1>6. /\ batch \in Seq(Entries) /\ records \in Seq(Entries) /\ Honest(Method, records)
        /\ Asked(arm, c, Width(L), L * Batch) /\ Width(L) \in Nat /\ TapeIsReal
    <2>1. batch \in Seq(Entries) /\ records \in Seq(Entries) /\ TapeIsReal
      BY DEF DiagInv, Typed
    <2>2. Honest(Method, records)
      BY DEF DiagInv, Counted
    <2>3. Asked(arm, c, Width(L), L * Batch)
      BY DEF DiagInv, Taken
    <2>4. Width(L) \in Nat
      BY <1>1, BatchWidth
    <2> QED BY <2>1, <2>2, <2>3, <2>4
  <1>7. /\ IsFiniteSet(New) /\ ArmOf(New).n = Width(L)
        /\ Extended(A) = [n |-> A.n + ArmOf(New).n, s |-> A.s + ArmOf(New).s]
    <2>1. PICK w, o : w = Width(L) /\ o = L * Batch
      OBVIOUS
    <2>2. Asked(arm, c, w, o) /\ w \in Nat /\ New = Sampled(c, arm, w, o)
      BY <1>6, <2>1
    <2> HIDE DEF New
    <2>3. /\ IsFiniteSet(New) /\ ArmOf(New).n = w
          /\ \A a : Extended(a) = [n |-> a.n + ArmOf(New).n, s |-> a.s + ArmOf(New).s]
      BY <1>6, <2>2, SampleCounts
    <2> QED BY <2>1, <2>3
  <1>8. /\ records \o batch \in Seq(Entries) /\ Honest(m, records \o batch)
        /\ Used(records \o batch, arm, c) = Used(records, arm, c) \cup New
        /\ \A a, j : a # arm \/ j # c => Used(records \o batch, a, j) = Used(records, a, j)
    BY <1>3, <1>5, <1>6, SampleIsFolded
  <1> HIDE DEF New, Old
  <1>9. IsFiniteSet(Old)
    <2>1. PICK draws : draws = records
      OBVIOUS
    <2> QED BY <1>3, <1>6, <2>1, TallyIsArm
  <1>10. /\ ArmOf(Old \cup New)
              = [n |-> ArmOf(Old).n + ArmOf(New).n, s |-> ArmOf(Old).s + ArmOf(New).s]
         /\ IsFiniteSet(Old \cup New)
    BY <1>5, <1>7, <1>9, ArmsAdd
  <1>11. Extended(A) = ArmOf(DueDraws(m, arm, c, L + 1))
    BY <1>3, <1>5, <1>7, <1>10
  <1>12. Extended(A) \in Arms
    <2> DEFINE D == Old \cup New
    <2>1. ArmOf(D).n \in Nat /\ ArmOf(D).s \in Nat
          /\ ArmOf(D) = [n |-> ArmOf(D).n, s |-> ArmOf(D).s]
      BY <1>10, ArmCounts
    <2>2. Extended(A) = ArmOf(D)
      BY <1>5, <1>11
    <2> HIDE DEF D
    <2> QED BY <2>1, <2>2 DEF Arms
  <1>13. Extended(A).n = AtLook(L + 1)
    BY <1>1, <1>3, <1>7, BatchWidth
  <1> QED BY <1>3, <1>5, <1>8, <1>11, <1>12, <1>13

(* An arm of the step moved on: the others and the rest stay.              *)
LEMMA FoldKeeps ==
  ASSUME DiagInv, UNCHANGED <<ranking, plan, results, todo, looks, effects, tape>>,
         NEW arm, \/ phase = "treated" /\ arm = "treated"
                  \/ phase = "beside" /\ arm = "control",
         phase' \in {"treated", "beside", "look"},
         Method.mode = "shared" => UNCHANGED control,
         Honest(Method, records'),
         \A a, j : a # arm \/ j # Min(todo) => Used(records', a, j) = Used(records, a, j)
  PROVE  SharedIn' /\ Untouched' /\ Estimated' /\ Counted' /\ Answered'
  <1>1. Tested' = Tested /\ Grows /\ Answered'
    BY SameTape
  <1>2. PICK m, c : m = Method /\ c = Min(todo)
    OBVIOUS
  <1>3. m = Method' /\ c = Min(todo') /\ Sampling /\ Sampling' /\ phase # "idle"
    BY <1>2 DEF Method, Sampling
  <1>4. c \in todo /\ DOMAIN effects = Tested \ todo
    BY <1>2, TestedSteps, EarliestIsIn DEF DiagInv, Phases, Typed
  <1>5. arm = "control" => m.mode = "per_step"
    BY <1>2 DEF DiagInv, Phases
  <1>6. SharedIn'
    <2>1. SharedDraws(m)' = SharedDraws(m)
      BY <1>1, ArmsStay
    <2>2. ArmOf(SharedDraws(m))' = ArmOf(SharedDraws(m))
      BY <2>1 DEF ArmOf
    <2> QED BY <1>1, <1>2, <1>3, <1>5, <2>1, <2>2 DEF DiagInv, SharedIn
  <1>7. Untouched'
    BY <1>2, <1>3 DEF DiagInv, Untouched
  <1>8. Counted'
    <2>1. PICK new : new = records'
      OBVIOUS
    <2>2. Honest(m, new)
      BY <1>2, <2>1
    <2>3. Honest(m, new)'
      BY <1>1, <2>2, HonestStays
    <2> QED BY <1>3, <2>1, <2>3 DEF Counted
  <1>9. Estimated'
    <2>1. \A k \in DOMAIN effects :
            /\ Used(records', "treated", k) = Used(records, "treated", k)
            /\ Method.mode = "shared" =>
                 Used(records', "control", Min(Tested)) = Used(records, "control", Min(Tested))
            /\ Method.mode = "per_step"
                 => Used(records', "control", k) = Used(records, "control", k)
      BY <1>2, <1>4, <1>5
    <2> QED BY <1>1, <1>3, <2>1, EstimatesStay DEF Estimated
  <1> QED BY <1>1, <1>6, <1>7, <1>8, <1>9

(* A treated batch is in: look at once, or take the control beside it.     *)
LEMMA FoldTreatedStep ==
  ASSUME DiagInv, FoldTreated
  PROVE  DiagInv'
  <1> USE DEF FoldTreated, Recorded
  <1>1. TapeIsReal' /\ BuysWhatItNeeds' /\ Tested' = Tested /\ Answers' = Answers /\ Grows
    BY SameTape
  <1>2. PICK m, c, L : m = Method /\ c = Min(todo) /\ L = looks
    OBVIOUS
  <1>3. /\ Len(results) < Len(plan) /\ L \in Nat /\ L * Batch < MaxN
        /\ Stands(m, c, L, L) /\ DOMAIN effects = Tested \ todo /\ todo # {}
    BY <1>2 DEF DiagInv, Typed, Phases, UnderWay, Sampling, TreatedLook, ControlLook
  <1>4. m \in Methods /\ m = Method' /\ c = Min(todo') /\ c \in todo /\ c \in Nat
    BY <1>2, <1>3, MethodIsPlanned, TestedSteps, EarliestIsIn DEF DiagInv, Method, Typed
  <1>5. /\ records' \in Seq(Entries) /\ Honest(m, records')
        /\ Used(records', "treated", c) = DueDraws(m, "treated", c, L + 1)
        /\ \A a, j : a # "treated" \/ j # c => Used(records', a, j) = Used(records, a, j)
        /\ treated' = ArmOf(DueDraws(m, "treated", c, L + 1)) /\ treated' \in Arms
        /\ treated'.n = AtLook(L + 1)
    BY <1>2, BatchIsFolded
  <1>6. \/ /\ m.mode = "per_step" /\ phase' = "beside"
           /\ batch' = Sample(c, "control", Take(treated), control.n)
        \/ m.mode # "per_step" /\ phase' = "look" /\ batch' = << >>
    BY <1>2
  <1>7. SharedIn' /\ Untouched' /\ Estimated' /\ Counted' /\ Answered'
    BY <1>2, <1>5, <1>6, FoldKeeps
  <1>8. AtLook(L) = L * Batch /\ L * Batch \in Nat /\ Width(L) \in Nat
    BY <1>3, BatchWidth
  <1>9. m.mode = "per_step" =>
          /\ batch' \in Seq(Entries) /\ Asked("control", c, Width(L), L * Batch)'
    <2> SUFFICES ASSUME m.mode = "per_step"
                 PROVE  batch' \in Seq(Entries) /\ Asked("control", c, Width(L), L * Batch)'
      OBVIOUS
    <2>1. treated.n = L * Batch /\ control.n = L * Batch
      BY <1>3, <1>8 DEF Stands
    <2>2. Take(treated) = Width(L)
      BY <2>1 DEF Take, Width
    <2>3. PICK w, o : w = Width(L) /\ o = L * Batch
      OBVIOUS
    <2>4. batch' = Sample(c, "control", w, o) /\ w \in Nat /\ o \in Nat
      BY <1>6, <1>8, <2>1, <2>2, <2>3
    <2>5. batch' \in Seq(Entries) /\ Asked("control", c, w, o)'
      BY <1>2, <1>4, <2>4, SampleIsAsked
    <2> QED BY <2>3, <2>5
  <1>10. Typed'
    <2>1. batch' \in Seq(Entries)
      BY <1>6, <1>9, NothingCounted
    <2> QED BY <1>1, <1>5, <1>6, <2>1 DEF DiagInv, Typed
  <1>11. Phases'
    BY <1>1, <1>3, <1>4, <1>6 DEF Phases
  <1>12. Taken'
    BY <1>2, <1>4, <1>6, <1>9 DEF Taken
  <1>13. UnderWay'
    <2>1. PICK cl : cl = IF m.mode = "per_step" THEN L ELSE L + 1
      OBVIOUS
    <2>2. TreatedLook' = L + 1 /\ ControlLook' = cl /\ looks' = L
      BY <1>2, <1>6, <2>1 DEF TreatedLook, ControlLook
    <2>3. treated' = TreatedAt(m, c, L + 1)'
      BY <1>5 DEF TreatedAt, ArmOf
    <2>4. control' = ControlAt(m, c, cl)'
      <3>1. control = ControlAt(m, c, L)
        BY <1>3 DEF Stands
      <3>2. ControlDraws(m, c, cl) = ControlDraws(m, c, L)
        BY <1>4, <2>1 DEF ControlDraws, Methods
      <3>3. ControlDraws(m, c, cl)' = ControlDraws(m, c, cl)
        BY <1>1, ArmsStay
      <3>4. ArmOf(ControlDraws(m, c, cl))' = ArmOf(ControlDraws(m, c, cl))
        BY <3>3 DEF ArmOf
      <3> QED BY <3>1, <3>2, <3>4 DEF ControlAt
    <2>5. UndecidedBefore(m, c, looks + 1)'
      BY <1>1, <1>2, <1>3, ZenonT(60) DEF Stands, UndecidedBefore, TreatedAt, ControlAt,
         ControlDraws, SharedDraws, ArmOf
    <2>6. m.mode = "per_step" =>
            control'.n = AtLook(cl) /\ Used(records', "control", c) = DueDraws(m, "control", c, cl)
      BY <1>3, <1>5, <2>1 DEF Stands
    <2>7. Stands(m, c, L + 1, cl)'
      BY <1>5, <2>3, <2>4, <2>5, <2>6 DEF Stands
    <2> QED BY <1>3, <1>4, <2>2, <2>7 DEF UnderWay
  <1> QED BY <1>1, <1>7, <1>10, <1>11, <1>12, <1>13 DEF DiagInv

(* A control batch is in beside its treated one: look.                     *)
LEMMA FoldBesideStep ==
  ASSUME DiagInv, FoldBeside
  PROVE  DiagInv'
  <1> USE DEF FoldBeside, Recorded
  <1>1. TapeIsReal' /\ BuysWhatItNeeds' /\ Tested' = Tested /\ Answers' = Answers /\ Grows
    BY SameTape
  <1>2. PICK m, c, L : m = Method /\ c = Min(todo) /\ L = looks
    OBVIOUS
  <1>3. /\ Len(results) < Len(plan) /\ L \in Nat /\ L * Batch < MaxN
        /\ Stands(m, c, L + 1, L) /\ DOMAIN effects = Tested \ todo /\ todo # {}
        /\ m.mode = "per_step"
    BY <1>2 DEF DiagInv, Typed, Phases, UnderWay, Sampling, TreatedLook, ControlLook
  <1>4. m \in Methods /\ m = Method' /\ c = Min(todo')
    BY <1>2, <1>3, MethodIsPlanned DEF DiagInv, Method
  <1>5. /\ records' \in Seq(Entries) /\ Honest(m, records')
        /\ Used(records', "control", c) = DueDraws(m, "control", c, L + 1)
        /\ \A a, j : a # "control" \/ j # c => Used(records', a, j) = Used(records, a, j)
        /\ control' = ArmOf(DueDraws(m, "control", c, L + 1)) /\ control' \in Arms
        /\ control'.n = AtLook(L + 1)
    BY <1>2, BatchIsFolded
  <1>6. SharedIn' /\ Untouched' /\ Estimated' /\ Counted' /\ Answered'
    BY <1>2, <1>3, <1>5, FoldKeeps
  <1>7. Typed'
    BY <1>1, <1>5 DEF DiagInv, Typed
  <1>8. Phases'
    BY <1>1, <1>3, <1>4 DEF Phases
  <1>9. Taken'
    BY DEF Taken
  <1>10. UnderWay'
    <2>1. TreatedLook' = L + 1 /\ ControlLook' = L + 1 /\ looks' = L
      BY <1>2 DEF TreatedLook, ControlLook
    <2>2. treated' = TreatedAt(m, c, L + 1)'
      BY <1>3 DEF Stands, TreatedAt, ArmOf
    <2>3. control' = ControlAt(m, c, L + 1)'
      BY <1>3, <1>5 DEF ControlAt, ControlDraws, ArmOf
    <2>4. UndecidedBefore(m, c, looks + 1)'
      BY <1>1, <1>2, <1>3, ZenonT(60) DEF Stands, UndecidedBefore, TreatedAt, ControlAt,
         ControlDraws, SharedDraws, ArmOf
    <2>5. Stands(m, c, L + 1, L + 1)'
      BY <1>3, <1>5, <2>2, <2>3, <2>4 DEF Stands
    <2> QED BY <1>3, <1>4, <2>1, <2>5 DEF UnderWay
  <1> QED BY <1>1, <1>6, <1>7, <1>8, <1>9, <1>10 DEF DiagInv

(* What the verdict is at a look.                                          *)
LEMMA AtTheLook ==
  ASSUME DiagInv, phase = "look", NEW m, NEW c, NEW L, m = Method, c = Min(todo), L = looks
  PROVE  /\ m \in Methods /\ Len(results) < Len(plan) /\ c \in todo /\ c \in Nat
         /\ L \in Nat /\ L + 1 \in Looks /\ L * Batch < MaxN
         /\ Stands(m, c, L + 1, L + 1) /\ DOMAIN effects = Tested \ todo /\ batch = << >>
         /\ treated.n < MaxN => treated.n = (L + 1) * Batch /\ (L + 1) * Batch < MaxN
  <1>1. /\ L \in Nat /\ L * Batch < MaxN /\ Stands(m, c, L + 1, L + 1) /\ batch = << >>
        /\ Len(results) < Len(plan) /\ DOMAIN effects = Tested \ todo /\ todo # {}
    BY DEF DiagInv, Typed, Phases, UnderWay, Sampling, TreatedLook, ControlLook
  <1>2. m \in Methods /\ c \in todo /\ c \in Nat
    BY <1>1, MethodIsPlanned, TestedSteps, EarliestIsIn DEF DiagInv, Typed
  <1>3. L + 1 \in Looks
    BY <1>1, LooksPlanned
  <1>4. treated.n = AtLook(L + 1)
    BY <1>1 DEF Stands
  <1>5. treated.n < MaxN => treated.n = (L + 1) * Batch
    BY <1>1, <1>4, BatchWidth
  <1> QED BY <1>1, <1>2, <1>3, <1>5

(* A look that decides nothing: one more batch.                            *)
LEMMA KeepSamplingStep ==
  ASSUME DiagInv, KeepSampling
  PROVE  DiagInv'
  <1> USE DEF KeepSampling
  <1>1. TapeIsReal' /\ BuysWhatItNeeds' /\ Tested' = Tested /\ Answers' = Answers
        /\ Answered' /\ Grows
    BY SameTape
  <1>2. PICK m, c, L : m = Method /\ c = Min(todo) /\ L = looks
    OBVIOUS
  <1>3. /\ m \in Methods /\ Len(results) < Len(plan) /\ c \in todo /\ c \in Nat
        /\ L \in Nat /\ L + 1 \in Looks /\ L * Batch < MaxN
        /\ Stands(m, c, L + 1, L + 1) /\ DOMAIN effects = Tested \ todo
        /\ treated.n < MaxN => treated.n = (L + 1) * Batch /\ (L + 1) * Batch < MaxN
    BY <1>2, AtTheLook
  <1>4. m = Method' /\ c = Min(todo') /\ looks' = L + 1 /\ L + 1 \in Nat
        /\ TreatedLook' = L + 1 /\ ControlLook' = L + 1 /\ phase' = "treated"
    BY <1>2, <1>3 DEF Method, TreatedLook, ControlLook, AskTreated
  <1>5. /\ ~Blames(L + 1, treated, control) /\ ~Clears(L + 1, treated, control)
        /\ treated.n < MaxN
    <2>1. treated.n \in Nat
      BY DEF DiagInv, Typed, Arms
    <2> QED BY <1>2, <2>1 DEF Verdict
  <1>6. treated.n = (L + 1) * Batch /\ (L + 1) * Batch < MaxN
    BY <1>3, <1>5
  <1>7. batch' \in Seq(Entries) /\ Asked("treated", c, Width(L + 1), (L + 1) * Batch)'
    <2>1. Take(treated) = Width(L + 1)
      BY <1>6 DEF Take, Width
    <2>2. PICK w, o : w = Width(L + 1) /\ o = (L + 1) * Batch
      OBVIOUS
    <2>3. w \in Nat /\ o \in Nat
      <3>1. PICK j \in Nat : j = L + 1
        BY <1>4
      <3>2. j * Batch < MaxN
        BY <1>6, <3>1
      <3>3. Width(j) \in Nat /\ j * Batch \in Nat
        BY <3>2, BatchWidth
      <3> QED BY <2>2, <3>1, <3>3
    <2>4. batch' = Sample(c, "treated", w, o)
      BY <1>2, <1>6, <2>1, <2>2 DEF AskTreated
    <2>5. batch' \in Seq(Entries) /\ Asked("treated", c, w, o)'
      BY <1>2, <1>3, <2>3, <2>4, SampleIsAsked
    <2> QED BY <2>2, <2>5
  <1>8. Typed'
    BY <1>1, <1>4, <1>7 DEF DiagInv, Typed
  <1>9. Phases'
    BY <1>1, <1>3, <1>4 DEF Phases
  <1>10. Taken'
    BY <1>4, <1>7 DEF Taken
  <1>11. Stands(m, c, L + 1, L + 1)'
    <2>1. treated' = TreatedAt(m, c, L + 1)' /\ control' = ControlAt(m, c, L + 1)'
      BY <1>1, <1>3 DEF Stands, TreatedAt, ControlAt, ControlDraws, SharedDraws, ArmOf
    <2>2. UndecidedBefore(m, c, (L + 1) + 1)
      <3>1. treated = TreatedAt(m, c, L + 1) /\ control = ControlAt(m, c, L + 1)
        BY <1>3 DEF Stands
      <3>2. UndecidedBefore(m, c, L + 1)
        BY <1>2, <1>3 DEF Stands
      <3>3. \A j \in 1..(((L + 1) + 1) - 1) : j \in 1..((L + 1) - 1) \/ j = L + 1
        BY <1>3
      <3> QED BY <1>5, <3>1, <3>2, <3>3 DEF UndecidedBefore
    <2>3. UndecidedBefore(m, c, looks + 1)'
      BY <1>1, <1>4, <2>2
         DEF UndecidedBefore, TreatedAt, ControlAt, ControlDraws, SharedDraws, ArmOf
    <2> QED BY <1>3, <2>1, <2>3 DEF Stands
  <1>12. UnderWay'
    BY <1>4, <1>6, <1>11 DEF UnderWay
  <1>13. SharedIn'
    BY <1>1, <1>2, <1>4 DEF DiagInv, SharedIn, SharedDraws, ArmOf, Sampling
  <1>14. Untouched'
    BY <1>2, <1>4 DEF DiagInv, Untouched, Sampling
  <1>15. Counted'
    BY <1>2, <1>4 DEF DiagInv, Counted, Honest
  <1>16. Estimated'
    BY <1>1, EstimatesStay DEF Estimated
  <1> QED BY <1>1, <1>8, <1>9, <1>10, <1>12, <1>13, <1>14, <1>15, <1>16 DEF DiagInv

(* The verdict on a step: the next one begins, or the blame is cast.       *)
LEMMA StopStepStep ==
  ASSUME DiagInv, StopStep
  PROVE  DiagInv'
  <1> USE DEF StopStep
  <1>1. TapeIsReal' /\ BuysWhatItNeeds' /\ Tested' = Tested /\ Answers' = Answers
        /\ Answered' /\ Grows
    BY SameTape
  <1>2. PICK m, c, L : m = Method /\ c = Min(todo) /\ L = looks
    OBVIOUS
  <1>3. /\ m \in Methods /\ Len(results) < Len(plan) /\ c \in todo /\ c \in Nat
        /\ L \in Nat /\ L + 1 \in Looks
        /\ Stands(m, c, L + 1, L + 1) /\ DOMAIN effects = Tested \ todo
    BY <1>2, AtTheLook
  <1>4. m = Method' /\ phase \notin {"idle", "blame"} /\ Sampling
    BY <1>2 DEF Method, Sampling
  <1>5. PICK e : e = [treated |-> treated, control |-> control,
                      reason |-> Verdict(looks + 1, treated, control)]
    OBVIOUS
  <1>6. /\ DOMAIN effects' = DOMAIN effects \cup {c} /\ effects'[c] = e
        /\ \A k \in DOMAIN effects : k # c /\ effects'[k] = effects[k]
        /\ effects' = [k \in DOMAIN effects \cup {c} |-> IF k = c THEN e ELSE effects[k]]
        /\ todo' = todo \ {c}
    BY <1>2, <1>3, <1>5 DEF Enter
  <1>7. e \in Verdicts
    BY <1>5 DEF DiagInv, Typed, Verdicts, Verdict
  <1>8. effects' \in [DOMAIN effects' -> Verdicts]
    BY <1>6, <1>7 DEF DiagInv, Typed
  <1>9. DOMAIN effects' = Tested \ todo' /\ todo' \subseteq Tested
    <2>1. todo \subseteq Tested
      BY DEF DiagInv, Typed
    <2> QED BY <1>3, <1>6, <2>1
  <1>10. control' \in Arms /\ treated' \in Arms /\ looks' \in Nat
    BY DEF DiagInv, Typed, NoArm, Arms
  <1>11. Counted'
    BY <1>1, <1>2, <1>4 DEF DiagInv, Counted, Honest
  <1>12. \A k \in todo' :
           /\ Used(records, "treated", k) = {}
           /\ m.mode = "per_step" => Used(records, "control", k) = {}
    BY <1>2, <1>6 DEF DiagInv, Untouched
  <1>13. Untouched'
    BY <1>4, <1>12 DEF Untouched
  <1>14. m.mode = "shared" =>
           /\ control' = control /\ control.n = MaxN /\ control = ArmOf(SharedDraws(m))
           /\ control = ArmOf(SharedDraws(m))'
           /\ Used(records, "control", Min(Tested)) = SharedDraws(m)
           /\ SharedDraws(m)' = SharedDraws(m)
    BY <1>1, <1>2, <1>4 DEF DiagInv, SharedIn, SharedDraws, ArmOf
  <1>15. SharedIn'
    BY <1>1, <1>4, <1>14 DEF SharedIn
  <1>16. Estimated'
    <2>1. ASSUME NEW k \in DOMAIN effects
          PROVE  \E l \in Looks : Settled(Method, records, k, effects[k], l)'
      <3>1. PICK f : f = effects[k] /\ f = effects'[k]
        BY <1>6
      <3>2. \E l \in Looks : Settled(Method, records, k, f, l)'
        BY <1>1, <1>4, <3>1, EstimatesStay
      <3> QED BY <3>1, <3>2
    <2>2. Settled(Method, records, c, effects[c], L + 1)'
      <3>1. Settled(m, records, c, e, L + 1)
        <4>1. /\ UndecidedBefore(m, c, L + 1) /\ e.treated = TreatedAt(m, c, L + 1)
              /\ e.control = ControlAt(m, c, L + 1) /\ e.treated.n = AtLook(L + 1)
              /\ Used(records, "treated", c) = DueDraws(m, "treated", c, L + 1)
              /\ m.mode = "per_step" =>
                   Used(records, "control", c) = DueDraws(m, "control", c, L + 1)
          BY <1>2, <1>3, <1>5 DEF Stands
        <4>2. e.reason = Verdict(L + 1, e.treated, e.control) /\ e.reason # "undecided"
          BY <1>2, <1>5
        <4> QED BY <1>14, <4>1, <4>2 DEF Settled
      <3>2. PICK draws : draws = records
        OBVIOUS
      <3>3. Honest(m, draws)
        BY <1>2, <1>4, <3>2 DEF DiagInv, Counted
      <3>4. Settled(m, draws, c, e, L + 1)'
        BY <1>1, <1>3, <3>1, <3>2, <3>3, SettledStays
      <3>5. draws = records'
        BY <3>2
      <3> QED BY <1>4, <1>6, <3>4, <3>5
    <2> QED BY <1>3, <1>6, <2>1, <2>2 DEF Estimated
  <1>17. CASE todo' = {}
    <2>1. phase' = "blame" /\ batch' = << >>
      BY <1>17
    <2>2. Typed'
      BY <1>1, <1>8, <1>9, <1>10, <2>1, NothingCounted DEF DiagInv, Typed
    <2>3. Phases'
      BY <1>1, <1>2, <1>3, <1>4, <1>9, <1>17, <2>1 DEF Phases
    <2>4. Taken' /\ UnderWay'
      BY <2>1 DEF Taken, UnderWay, Sampling
    <2> QED BY <1>1, <1>11, <1>13, <1>15, <1>16, <2>2, <2>3, <2>4 DEF DiagInv
  <1>18. CASE todo' # {}
    <2>1. PICK d : d = Min(todo')
      OBVIOUS
    <2>2. d \in todo' /\ d \in Nat
      BY <1>9, <1>18, <2>1, TestedSteps, EarliestIsIn
    <2>3. phase' = "treated" /\ batch' = Sample(d, "treated", Take(NoArm), NoArm.n)
      BY <1>18, <2>1 DEF AskTreated
    <2>4. Take(NoArm) = Width(0) /\ NoArm.n = 0 /\ 0 * Batch = 0 /\ Width(0) \in Nat
      BY FirstBatch
    <2>5. batch' \in Seq(Entries) /\ Asked("treated", d, Width(0), 0 * Batch)'
      BY <1>2, <1>3, <2>2, <2>3, <2>4, SampleIsAsked
    <2>6. Typed'
      BY <1>1, <1>8, <1>9, <1>10, <2>3, <2>5 DEF DiagInv, Typed
    <2>7. Phases'
      BY <1>1, <1>3, <1>4, <1>9, <1>18, <2>3 DEF Phases
    <2>8. Taken'
      BY <2>1, <2>3, <2>5 DEF Taken
    <2>9. UnderWay'
      BY <1>1, <1>2, <1>3, <1>4, <1>12, <1>14, <2>1, <2>2, <2>3, StepBegins
    <2> QED BY <1>1, <1>11, <1>13, <1>15, <1>16, <2>6, <2>7, <2>8, <2>9 DEF DiagInv
  <1> QED BY <1>17, <1>18

(* Every step keeps the invariant.                                         *)
LEMMA DiagStep ==
  ASSUME DiagInv, [Next]_vars
  PROVE  DiagInv'
  <1>1. CASE UNCHANGED vars
    <2> USE <1>1 DEF vars, local
    <2>1. TapeIsReal' /\ BuysWhatItNeeds' /\ Tested' = Tested /\ Answers' = Answers
          /\ Answered' /\ Grows
      BY SameTape
    <2>2. Typed' /\ Phases' /\ Taken'
      BY <2>1 DEF DiagInv, Typed, Phases, Taken, Asked, Draw, Method
    <2>3. CASE phase = "idle"
      BY <2>1, <2>2, <2>3
         DEF DiagInv, Phases, UnderWay, SharedIn, Untouched, Estimated, Counted, Sampling
    <2>4. CASE phase # "idle"
      <3>1. UnderWay' /\ SharedIn' /\ Untouched' /\ Estimated' /\ Answered' /\ Counted'
        BY <2>1, <2>4, DrawsKeep
      <3> QED BY <2>1, <2>2, <3>1 DEF DiagInv
    <2> QED BY <2>3, <2>4
  <1>2. CASE NothingToTest
    BY <1>2, NothingToTestStep
  <1>3. CASE Begin
    BY <1>3, BeginStep
  <1>4. CASE \E i \in DOMAIN batch : Reuse(i) \/ Buy(i) \/ DrawFails(i)
    BY <1>4, DrawStep
  <1>5. CASE Raise
    BY <1>5, LoseStep DEF Raise, DiagInv, Typed
  <1>6. CASE FoldShared \/ FoldTreated \/ FoldBeside
    BY <1>6, FoldSharedStep, FoldTreatedStep, FoldBesideStep
  <1>7. CASE KeepSampling \/ StopStep
    BY <1>7, KeepSamplingStep, StopStepStep
  <1>8. CASE Conclude
    BY <1>8, ConcludeStep
  <1>9. CASE Crash
    <2>1. faults' \in 0..MaxFaults
      BY <1>9 DEF Crash, DiagInv, Typed
    <2> QED BY <1>9, <2>1, LoseStep DEF Crash
  <1> QED BY <1>1, <1>2, <1>3, <1>4, <1>5, <1>6, <1>7, <1>8, <1>9 DEF Next, Step

(* Every reachable state of a diagnosis satisfies the invariant.           *)
THEOREM DiagInvariant == Spec => []DiagInv
  <1>1. DiagInv /\ [Next]_vars => DiagInv'
    BY DiagStep
  <1> QED BY <1>1, DiagStart, PTL DEF Spec

-----------------------------------------------------------------------------
(* An arm as the counts of finitely many draws, when it is not empty.      *)
LEMMA ArmsAreCounts ==
  ASSUME DiagInv
  PROVE  /\ treated.n \in 0..MaxN /\ treated.s \in Nat /\ treated.s <= treated.n
         /\ control.n \in 0..MaxN /\ control.s \in Nat /\ control.s <= control.n
  <1> USE DEF DiagInv
  <1>1. NoArm.n = 0 /\ NoArm.s = 0
    BY DEF NoArm
  <1>2. PICK m, c, draws : m = Method /\ c = Min(todo) /\ draws = records
    OBVIOUS
  <1>3. phase # "idle" => Honest(m, draws) /\ m \in Methods /\ draws \in Seq(Entries) /\ TapeIsReal
    BY <1>2, MethodIsPlanned DEF Phases, Counted, Typed
  <1>4. ASSUME NEW L \in Nat, L * Batch < MaxN
        PROVE  AtLook(L) \in 0..MaxN /\ AtLook(L + 1) \in 0..MaxN
    <2>1. /\ AtLook(L) = L * Batch /\ L * Batch \in Nat /\ L * Batch < MaxN
          /\ AtLook(L + 1) \in 1..MaxN
      BY <1>4, BatchWidth
    <2> QED BY <2>1
  <1>5. CASE Sampling
    <2>1. phase # "idle"
      BY <1>5 DEF Sampling
    <2>2. looks \in Nat /\ looks * Batch < MaxN /\ Stands(m, c, TreatedLook, ControlLook)
      BY <1>2, <1>5 DEF UnderWay, Typed
    <2>3. IsFiniteSet(DueDraws(m, "treated", c, TreatedLook))
      BY <1>2, <1>3, <2>1, <2>2, TallyIsArm DEF Stands
    <2>4. treated.n \in Nat /\ treated.s \in Nat /\ treated.s <= treated.n
      BY <2>2, <2>3, ArmCounts DEF Stands, TreatedAt
    <2>5. treated.n \in 0..MaxN
      BY <1>4, <2>2 DEF Stands, TreatedLook
    <2>6. control.s \in Nat /\ control.s <= control.n /\ control.n \in 0..MaxN
      <3>1. CASE m.mode = "shared"
        <4>1. control.n = MaxN /\ control = ArmOf(SharedDraws(m))
              /\ Used(draws, "control", Min(Tested)) = SharedDraws(m)
          BY <1>2, <1>5, <3>1 DEF SharedIn
        <4>2. IsFiniteSet(SharedDraws(m))
          BY <1>3, <2>1, <4>1, TallyIsArm
        <4> QED BY <4>1, <4>2, ArmCounts
      <3>2. CASE m.mode = "per_step"
        <4>1. /\ control.n = AtLook(ControlLook)
              /\ Used(draws, "control", c) = DueDraws(m, "control", c, ControlLook)
              /\ control = ArmOf(DueDraws(m, "control", c, ControlLook))
          BY <1>2, <2>2, <3>2 DEF Stands, ControlAt, ControlDraws
        <4>2. IsFiniteSet(DueDraws(m, "control", c, ControlLook))
          BY <1>3, <2>1, <4>1, TallyIsArm
        <4>3. control.s \in Nat /\ control.s <= control.n
          BY <4>1, <4>2, ArmCounts
        <4>4. control.n \in 0..MaxN
          BY <1>4, <2>2, <4>1 DEF ControlLook
        <4> QED BY <4>3, <4>4
      <3>3. CASE m.mode = "none"
        <4>1. control = NoArm
          BY <2>2, <3>3, FS_EmptySet, ArmCounts DEF Stands, ControlAt, ControlDraws
        <4> QED BY <1>1, <4>1
      <3> QED BY <1>3, <2>1, <3>1, <3>2, <3>3 DEF Methods
    <2> QED BY <2>4, <2>5, <2>6
  <1>6. CASE ~Sampling
    <2>1. treated = NoArm
      BY <1>6 DEF Sampling, Phases, Typed
    <2>2. control.s \in Nat /\ control.s <= control.n /\ control.n \in 0..MaxN
      <3>1. CASE phase = "blame" /\ m.mode = "shared"
        <4>1. control.n = MaxN /\ control = ArmOf(SharedDraws(m))
              /\ Used(draws, "control", Min(Tested)) = SharedDraws(m)
          BY <1>2, <3>1 DEF SharedIn
        <4>2. IsFiniteSet(SharedDraws(m))
          BY <1>3, <3>1, <4>1, TallyIsArm
        <4> QED BY <4>1, <4>2, ArmCounts
      <3>2. CASE ~(phase = "blame" /\ m.mode = "shared")
        <4>1. control = NoArm
          BY <1>2, <1>6, <3>2 DEF Sampling, Phases, Typed
        <4> QED BY <1>1, <4>1
      <3> QED BY <3>1, <3>2
    <2> QED BY <1>1, <2>1, <2>2
  <1> QED BY <1>5, <1>6

(* The shape of a diagnosis, and the bounds of its arms and looks: no arm  *)
(* outgrows MaxN and no look follows the last one planned (estimate_step). *)
THEOREM DiagTypes == Spec => []TypeOK
  <1>1. DiagInv => TypeOK
    <2> SUFFICES ASSUME DiagInv PROVE TypeOK
      OBVIOUS
    <2> USE DEF DiagInv
    <2>1. {treated, control} \subseteq [n : 0..MaxN, s : 0..MaxN]
      <3>1. treated \in Arms /\ control \in Arms
        BY DEF Typed
      <3>2. treated.s \in 0..MaxN /\ control.s \in 0..MaxN
        BY ArmsAreCounts
      <3>3. treated \in [n : 0..MaxN, s : 0..MaxN] /\ control \in [n : 0..MaxN, s : 0..MaxN]
        BY <3>1, <3>2, ArmsAreCounts DEF Arms
      <3> QED BY <3>3
    <2>2. looks \in 0..(Cardinality(Looks) - 1)
      <3>1. looks \in Nat /\ looks * Batch < MaxN
        <4>1. CASE Sampling
          BY <4>1 DEF Typed, UnderWay
        <4>2. CASE ~Sampling
          <5>1. looks = 0
            BY <4>2 DEF Sampling, Phases, Typed
          <5> QED BY <5>1, FirstBatch
        <4> QED BY <4>1, <4>2
      <3>2. looks + 1 \in 1..Cardinality(Looks) /\ Cardinality(Looks) \in Nat
        BY <3>1, LooksPlanned
      <3> QED BY <3>1, <3>2
    <2>3. \A i \in DOMAIN batch : batch[i].got \in {"owed", "pass", "fail", "failed"}
      <3>1. \A i \in DOMAIN batch : batch[i] \in Entries
        BY DEF Typed
      <3> QED BY <3>1 DEF Entries
    <2>4. DOMAIN effects \subseteq Tested
      BY DEF Phases
    <2> QED BY <2>1, <2>2, <2>3, <2>4, ArmsAreCounts DEF Typed, TypeOK
  <1> QED BY <1>1, DiagInvariant, PTL

(* A step that settled is blameworthy if the draws on the tape, looked at  *)
(* batch by batch, are, and only then.                                     *)
LEMMA VerdictIsTheTapes ==
  ASSUME NEW m \in Methods, NEW draws, NEW k, NEW e, NEW L \in Looks, Settled(m, draws, k, e, L)
  PROVE  Worthy(m, k) <=> e.reason = "blameworthy"
  <1>1. /\ e.treated = TreatedAt(m, k, L) /\ e.control = ControlAt(m, k, L)
        /\ UndecidedBefore(m, k, L) /\ L \in Nat
    BY LooksPlanned DEF Settled
  <1>2. e.reason = "blameworthy" <=> Blames(L, e.treated, e.control)
    BY DEF Settled, Verdict
  <1>3. ASSUME e.reason = "blameworthy" PROVE Worthy(m, k)
    BY <1>1, <1>2, <1>3 DEF Worthy
  <1>4. ASSUME Worthy(m, k), ~Blames(L, e.treated, e.control) PROVE FALSE
    <2>1. PICK j \in Looks : Blames(j, TreatedAt(m, k, j), ControlAt(m, k, j))
          /\ UndecidedBefore(m, k, j)
      BY <1>4 DEF Worthy
    <2>2. j \in Nat /\ j \in 1..Cardinality(Looks)
      BY LooksPlanned
    <2>3. ~(j < L)
      <3>1. j < L => j \in 1..(L - 1)
        BY <1>1, <2>2
      <3> QED BY <1>1, <2>1, <3>1 DEF UndecidedBefore
    <2>4. j # L
      BY <1>1, <1>4, <2>1
    <2>5. L \in 1..(j - 1)
      BY <1>1, <2>2, <2>3, <2>4, LooksPlanned
    <2>6. ~Clears(L, e.treated, e.control)
      BY <1>1, <2>1, <2>5 DEF UndecidedBefore
    <2>7. AtLook(L) >= MaxN
      BY <1>4, <2>6 DEF Settled, Verdict
    <2>8. L * Batch >= MaxN
      <3>1. PICK x : x = L * Batch
        OBVIOUS
      <3>2. x \in Int
        BY <1>1, <3>1
      <3> QED BY <2>7, <3>1, <3>2 DEF AtLook
    <2>9. j <= L
      BY <1>1, <2>8, LooksPlanned
    <2> QED BY <1>1, <2>2, <2>5, <2>9
  <1> QED BY <1>2, <1>3, <1>4

(* What a finished method left.                                            *)
LEMMA AnswersTyped ==
  ASSUME DiagInv, NEW r \in DOMAIN results
  PROVE  /\ plan[r] \in Methods /\ results[r] \in Answers
         /\ results[r].records \in Seq(Entries) /\ DOMAIN results[r].effects = Tested
  <1>1. plan[r] \in Methods /\ results[r] \in Answers
    BY DEF DiagInv, Typed
  <1> QED BY <1>1 DEF Answers

(* A method blames the earliest suspect whose draws, looked at batch by    *)
(* batch, first become decisive by crossing delta, as the draws on the     *)
(* tape have it (estimate.py, search.py): for any number of methods,       *)
(* draws, threads, failures and crashes, and any verdict functions.        *)
THEOREM BlameIsOfTheTape == Spec => []BlameIsTheTapes
  <1>1. DiagInv => BlameIsTheTapes
    <2> SUFFICES ASSUME DiagInv, NEW r \in DOMAIN results
                 PROVE  results[r].blame = LET worthy == {k \in Tested : Worthy(plan[r], k)}
                                           IN  IF worthy = {} THEN NoStep ELSE Min(worthy)
      BY DEF BlameIsTheTapes
    <2>1. PICK m, a : m = plan[r] /\ a = results[r]
      OBVIOUS
    <2>2. m \in Methods /\ a \in Answers /\ DOMAIN a.effects = Tested
      BY <2>1, AnswersTyped
    <2>3. a.blame = Blame(a.effects)
      BY <2>1 DEF DiagInv, Answered
    <2>4. ASSUME NEW k \in Tested PROVE Worthy(m, k) <=> a.effects[k].reason = "blameworthy"
      <3>1. PICK L \in Looks : Settled(m, a.records, k, a.effects[k], L)
        BY <2>1 DEF DiagInv, Answered
      <3> QED BY <2>2, <3>1, VerdictIsTheTapes
    <2>5. {k \in Tested : Worthy(m, k)}
          = {k \in DOMAIN a.effects : a.effects[k].reason = "blameworthy"}
      BY <2>2, <2>4
    <2> QED BY <2>1, <2>3, <2>5 DEF Blame
  <1> QED BY <1>1, DiagInvariant, PTL

(* No draw is counted twice, every draw a method counts is a re-run on the *)
(* tape with that outcome, by its mechanism, on that arm at that step, and *)
(* the arms that are compared are the totals of those draws.               *)
THEOREM EvidenceIsOnTape == Spec => []EvidenceIsReal
  <1>1. DiagInv => EvidenceIsReal
    <2> SUFFICES ASSUME DiagInv PROVE EvidenceIsReal
      OBVIOUS
    <2>1. ASSUME NEW r \in DOMAIN results
          PROVE  LET m == plan[r] IN
                 /\ Honest(m, results[r].records)
                 /\ \A k \in DOMAIN results[r].effects :
                      /\ results[r].effects[k].treated = Tally(results[r].records, "treated", k)
                      /\ results[r].effects[k].control = ControlTally(m, results[r].records, k)
      <3>1. PICK m, a : m = plan[r] /\ a = results[r]
        OBVIOUS
      <3>2. /\ m \in Methods /\ a \in Answers /\ DOMAIN a.effects = Tested
            /\ a.records \in Seq(Entries) /\ TapeIsReal /\ Honest(m, a.records)
        BY <3>1, AnswersTyped DEF DiagInv, Answered
      <3>3. ASSUME NEW k \in Tested
            PROVE  /\ a.effects[k].treated = Tally(a.records, "treated", k)
                   /\ a.effects[k].control = ControlTally(m, a.records, k)
        <4>1. PICK L \in Looks : Settled(m, a.records, k, a.effects[k], L)
          BY <3>1 DEF DiagInv, Answered
        <4>2. \A arm, j : Tally(a.records, arm, j) = ArmOf(Used(a.records, arm, j))
          BY <3>2, TallyIsArm
        <4>3. a.effects[k].treated = Tally(a.records, "treated", k)
          BY <4>1, <4>2 DEF Settled, TreatedAt
        <4>4. ArmOf({}) = NoArm
          BY FS_EmptySet, ArmCounts
        <4>5. a.effects[k].control = ControlTally(m, a.records, k)
          BY <3>2, <4>1, <4>2, <4>4 DEF Settled, ControlAt, ControlDraws, ControlTally, Methods
        <4> QED BY <4>3, <4>5
      <3> QED BY <3>1, <3>2, <3>3
    <2>2. ~Done => Honest(Method, records)
      <3>1. CASE phase = "idle"
        BY <3>1, NothingCounted DEF DiagInv, Phases
      <3> QED BY <3>1 DEF DiagInv, Counted
    <2>3. phase = "look" => /\ treated = Tally(records, "treated", Min(todo))
                            /\ control = ControlTally(Method, records, Min(todo))
      <3> SUFFICES ASSUME phase = "look"
                   PROVE  /\ treated = Tally(records, "treated", Min(todo))
                          /\ control = ControlTally(Method, records, Min(todo))
        OBVIOUS
      <3>1. PICK m, c, L, draws : m = Method /\ c = Min(todo) /\ L = looks /\ draws = records
        OBVIOUS
      <3>2. m \in Methods /\ Stands(m, c, L + 1, L + 1)
        BY <3>1, AtTheLook
      <3>3. Honest(m, draws) /\ draws \in Seq(Entries) /\ TapeIsReal
        BY <3>1 DEF DiagInv, Counted, Typed
      <3>4. \A arm, j : Tally(draws, arm, j) = ArmOf(Used(draws, arm, j))
        BY <3>3, TallyIsArm
      <3>5. treated = Tally(draws, "treated", c)
        BY <3>1, <3>2, <3>4 DEF Stands, TreatedAt
      <3>6. m.mode = "shared" => Used(draws, "control", Min(Tested)) = SharedDraws(m)
        BY <3>1 DEF DiagInv, SharedIn, Sampling
      <3>7. ArmOf({}) = NoArm
        BY FS_EmptySet, ArmCounts
      <3>8. control = ControlTally(m, draws, c)
        BY <3>1, <3>2, <3>4, <3>6, <3>7 DEF Stands, ControlAt, ControlDraws, ControlTally, Methods
      <3> QED BY <3>1, <3>5, <3>8
    <2> QED BY <2>1, <2>2, <2>3 DEF EvidenceIsReal
  <1> QED BY <1>1, DiagInvariant, PTL

(* Every draw ever bought is one that some method of the evaluation needs: *)
(* a diagnosis made again after a failure or a crash buys nothing it would *)
(* not have bought at first.                                               *)
THEOREM NothingIsBoughtInVain == Spec => []BuysWhatItNeeds
  <1>1. DiagInv => BuysWhatItNeeds
    BY DEF DiagInv
  <1> QED BY <1>1, DiagInvariant, PTL

=============================================================================

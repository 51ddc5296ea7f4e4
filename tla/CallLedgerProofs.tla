-------------------------- MODULE CallLedgerProofs --------------------------
(***************************************************************************)
(* Proofs about the call ledger, for any number of callers and processes   *)
(* and any caps.                                                           *)
(***************************************************************************)
EXTENDS CallLedgerBudget, FiniteSetTheorems, TLAPS

-----------------------------------------------------------------------------
(* How a step may change the calls table.                                  *)

(* One row gets a new status or one more send. *)
Updated(id) ==
  /\ id \in DOMAIN rows
  /\ \/ \E s \in Settled : rows' = [rows EXCEPT ![id].status = s]
     \/ rows' = [rows EXCEPT ![id].sends = @ + 1]

(* A row is added at the end. *)
Appended(row) == row \in Row /\ rows' = Append(rows, row)

(* An update keeps the table's length and every row's phase and owner, and *)
(* touches one row only.                                                   *)
LEMMA UpdateFrame ==
  ASSUME TypeOK, NEW id, Updated(id)
  PROVE  /\ rows' \in Seq(Row)
         /\ Len(rows') = Len(rows)
         /\ DOMAIN rows' = DOMAIN rows
         /\ \A i \in DOMAIN rows :
              /\ i # id => rows'[i] = rows[i]
              /\ rows'[i].phase = rows[i].phase
              /\ rows'[i].owner = rows[i].owner
  <1>1. rows \in Seq(Row) /\ id \in DOMAIN rows
    BY DEF TypeOK, Updated
  <1>2. rows[id] \in Row
    BY <1>1
  <1>3. CASE \E s \in Settled : rows' = [rows EXCEPT ![id].status = s]
    <2>1. PICK s \in Settled : rows' = [rows EXCEPT ![id].status = s]
      BY <1>3
    <2>2. [rows[id] EXCEPT !.status = s] \in Row
      BY <1>2 DEF Row
    <2>3. rows' = [rows EXCEPT ![id] = [rows[id] EXCEPT !.status = s]]
      BY <2>1
    <2> QED BY <1>1, <1>2, <2>2, <2>3 DEF Row
  <1>4. CASE rows' = [rows EXCEPT ![id].sends = @ + 1]
    <2>1. [rows[id] EXCEPT !.sends = @ + 1] \in Row
      BY <1>2 DEF Row
    <2>2. rows' = [rows EXCEPT ![id] = [rows[id] EXCEPT !.sends = @ + 1]]
      BY <1>4
    <2> QED BY <1>1, <1>2, <2>1, <2>2 DEF Row
  <1> QED BY <1>3, <1>4 DEF Updated

(* An insert leaves every row that was there alone. *)
LEMMA AppendFrame ==
  ASSUME TypeOK, NEW row, Appended(row)
  PROVE  /\ rows' \in Seq(Row)
         /\ Len(rows') = Len(rows) + 1
         /\ DOMAIN rows' = DOMAIN rows \union {Len(rows) + 1}
         /\ Len(rows) + 1 \notin DOMAIN rows
         /\ \A i \in DOMAIN rows : rows'[i] = rows[i]
         /\ rows'[Len(rows) + 1] = row
  BY DEF TypeOK, Appended

-----------------------------------------------------------------------------
(* Which step changes the table how.                                       *)

(* Every step leaves the table alone, updates a row or inserts one. *)
LEMMA AttemptEffect ==
  ASSUME TypeOK, InFlightHoldsRow, NEW c \in Callers, Attempt(c)
  PROVE  \/ rows' = rows
         \/ pc[c] = "limiter" /\ Updated(callId[c])
         \/ pc[c] = "wire" /\ Updated(callId[c])
         \/ Appended(NewRow(PhaseOf[c], c, "reserved")) /\ HasRoom(c)
  <1>1. NewRow(PhaseOf[c], c, "reserved") \in Row
    BY CallersAssumption DEF NewRow, Row, Settled
  <1>2. CASE Reserve(c)
    BY <1>1, <1>2 DEF Reserve, Appended
  <1>3. CASE Send(c)
    BY <1>3 DEF Send, Updated, InFlightHoldsRow, InFlight
  <1>4. CASE AnswerOk(c) \/ AnswerFatal(c) \/ AnswerTooLate(c) \/ AnswerRetryable(c)
    BY <1>4 DEF AnswerOk, AnswerFatal, AnswerTooLate, AnswerRetryable, Finish,
                Updated, InFlightHoldsRow, InFlight, Settled
  <1>5. CASE Refuse(c) \/ Wake(c) \/ Store(c) \/ HookFails(c) \/ Deliver(c)
    BY <1>5 DEF Refuse, Wake, Store, HookFails, Deliver
  <1> QED BY <1>2, <1>3, <1>4, <1>5 DEF Attempt

-----------------------------------------------------------------------------
(* Types.                                                                  *)

Inv == TypeOK /\ CapHolds /\ InFlightHoldsRow /\ OneCallPerRow /\ RecordBeforeUse

(* The initial state satisfies the whole invariant. *)
LEMMA InitInv == Init => Inv
  <1> SUFFICES ASSUME Init PROVE Inv
    OBVIOUS
  <1>1. rows = <<>> /\ DOMAIN rows = {}
    BY DEF Init
  <1>2. TypeOK
    BY <1>1 DEF Init, TypeOK, PC, Resting
  <1>3. CapHolds /\ OneCallPerRow
    BY <1>1 DEF CapHolds, OneCallPerRow
  <1>4. InFlightHoldsRow /\ RecordBeforeUse
    BY DEF Init, InFlightHoldsRow, InFlight, RecordBeforeUse, OnItsWay
  <1> QED BY <1>2, <1>3, <1>4 DEF Inv

(* A step of a caller keeps the types. *)
LEMMA AttemptTypes ==
  ASSUME TypeOK, InFlightHoldsRow, NEW c \in Callers, Attempt(c)
  PROVE  TypeOK'
  <1>1. rows' \in Seq(Row)
    <2>1. CASE rows' = rows
      BY <2>1 DEF TypeOK
    <2>2. CASE Updated(callId[c])
      BY <2>2, UpdateFrame
    <2>3. CASE Appended(NewRow(PhaseOf[c], c, "reserved"))
      BY <2>3, AppendFrame
    <2> QED BY <2>1, <2>2, <2>3, AttemptEffect
  <1>2. Len(rows) \in Nat
    BY DEF TypeOK
  <1>3. callId' \in [Callers -> Nat]
    BY <1>2 DEF TypeOK, Attempt, Reserve, Refuse, Send, AnswerOk, AnswerFatal,
       AnswerTooLate, AnswerRetryable, Wake, Store, HookFails, Deliver
  <1>4. pc' \in [Callers -> PC]
    BY DEF TypeOK, PC, Resting, InFlight, Goto, Attempt, Reserve, Refuse, Send,
       AnswerOk, AnswerFatal, AnswerTooLate, AnswerRetryable, Wake, Store,
       HookFails, Deliver
  <1>5. elapsed' \in [Callers -> Nat]
    <2>1. CASE Wake(c)
      BY <2>1 DEF TypeOK, Wake
    <2>2. CASE ~Wake(c)
      BY <2>2 DEF TypeOK, Attempt, Reserve, Refuse, Send, AnswerOk, AnswerFatal,
         AnswerTooLate, AnswerRetryable, Store, HookFails, Deliver
    <2> QED BY <2>1, <2>2
  <1>6. recorded' \subseteq Nat /\ used' \subseteq Nat
    <2>1. callId[c] \in Nat
      BY DEF TypeOK
    <2> QED BY <2>1 DEF TypeOK, Attempt, Reserve, Refuse, Send, AnswerOk, AnswerFatal,
       AnswerTooLate, AnswerRetryable, Wake, Store, HookFails, Deliver
  <1>7. calls' = calls /\ losses' = losses
    BY DEF Attempt, Reserve, Refuse, Send, AnswerOk, AnswerFatal,
       AnswerTooLate, AnswerRetryable, Wake, Store, HookFails, Deliver
  <1> QED BY <1>1, <1>3, <1>4, <1>5, <1>6, <1>7 DEF TypeOK

-----------------------------------------------------------------------------
(* The cap.                                                                *)

(* The cap only looks at which rows are in scope, so it survives every     *)
(* change that keeps the rows' phases and owners. *)
LEMMA CapSurvives ==
  ASSUME TypeOK, CapHolds,
         DOMAIN rows' = DOMAIN rows,
         \A i \in DOMAIN rows : /\ rows'[i].phase = rows[i].phase
                                /\ rows'[i].owner = rows[i].owner
  PROVE  CapHolds'
  <1> SUFFICES ASSUME NEW i \in DOMAIN rows,
                      rows[i].owner \in Callers,
                      MaxCalls[rows[i].owner] # NoCap
               PROVE  Cardinality({j \in 1..(i - 1) : InScope(rows[i].owner, rows'[j])})
                        < MaxCalls[rows[i].owner]
    BY DEF CapHolds, InScope
  <1> DEFINE o == rows[i].owner
  <1>1. DOMAIN rows = 1..Len(rows) /\ Len(rows) \in Nat
    BY DEF TypeOK
  <1>2. \A j \in 1..(i - 1) : InScope(o, rows'[j]) <=> InScope(o, rows[j])
    BY <1>1 DEF InScope
  <1>3. {j \in 1..(i - 1) : InScope(o, rows'[j])} = {j \in 1..(i - 1) : InScope(o, rows[j])}
    BY <1>2
  <1>4. Cardinality({j \in 1..(i - 1) : InScope(o, rows[j])}) < MaxCalls[o]
    BY DEF CapHolds
  <1> QED BY <1>3, <1>4

(* An insert keeps the cap if its owner had room, or has no cap to keep. *)
LEMMA CapInsert ==
  ASSUME TypeOK, CapHolds, NEW row, Appended(row),
         row.owner \in Callers => HasRoom(row.owner)
  PROVE  CapHolds'
  <1> SUFFICES ASSUME NEW i \in DOMAIN rows',
                      rows'[i].owner \in Callers,
                      MaxCalls[rows'[i].owner] # NoCap
               PROVE  Cardinality({j \in 1..(i - 1) : InScope(rows'[i].owner, rows'[j])})
                        < MaxCalls[rows'[i].owner]
    BY DEF CapHolds, InScope
  <1> DEFINE o == rows'[i].owner
  <1>1. DOMAIN rows = 1..Len(rows) /\ Len(rows) \in Nat
    BY DEF TypeOK
  <1>2. /\ DOMAIN rows' = DOMAIN rows \union {Len(rows) + 1}
        /\ \A j \in DOMAIN rows : rows'[j] = rows[j]
        /\ rows'[Len(rows) + 1] = row
    BY AppendFrame
  <1>3. \A j \in 1..(i - 1) : j \in DOMAIN rows
    BY <1>1, <1>2
  <1>4. \A j \in 1..(i - 1) : InScope(o, rows'[j]) <=> InScope(o, rows[j])
    BY <1>2, <1>3
  <1>5. {j \in 1..(i - 1) : InScope(o, rows'[j])} = {j \in 1..(i - 1) : InScope(o, rows[j])}
    BY <1>4
  <1>6. CASE i \in DOMAIN rows
    BY <1>2, <1>5, <1>6 DEF CapHolds
  <1>7. CASE i = Len(rows) + 1
    <2>1. o = row.owner /\ 1..(i - 1) = DOMAIN rows
      BY <1>1, <1>2, <1>7
    <2>2. {j \in 1..(i - 1) : InScope(o, rows[j])} = ScopeRows(o)
      BY <2>1 DEF ScopeRows
    <2>3. Cardinality(ScopeRows(o)) < MaxCalls[o]
      BY <2>1 DEF HasRoom
    <2> QED BY <1>5, <2>2, <2>3
  <1> QED BY <1>2, <1>6, <1>7

(* A step of a caller keeps the cap: a reservation had room, and nothing   *)
(* else inserts. *)
LEMMA AttemptCap ==
  ASSUME TypeOK, CapHolds, InFlightHoldsRow, NEW c \in Callers, Attempt(c)
  PROVE  CapHolds'
  <1>1. CASE rows' = rows
    BY <1>1, CapSurvives
  <1>2. CASE Updated(callId[c])
    BY <1>2, UpdateFrame, CapSurvives
  <1>3. CASE Appended(NewRow(PhaseOf[c], c, "reserved")) /\ HasRoom(c)
    <2>1. NewRow(PhaseOf[c], c, "reserved").owner = c
      BY DEF NewRow
    <2> QED BY <1>3, <2>1, CapInsert
  <1> QED BY <1>1, <1>2, <1>3, AttemptEffect

-----------------------------------------------------------------------------
(* Rows in flight and responses on their way.                              *)

Holding == InFlight \union {"hook", "deliver"}

(* A caller's step leaves the row another caller holds as it was. *)
LEMMA OthersRows ==
  ASSUME Inv, NEW c \in Callers, Attempt(c),
         NEW d \in Callers, d # c, pc[d] \in Holding
  PROVE  /\ callId[d] \in DOMAIN rows
         /\ callId[d] \in DOMAIN rows'
         /\ rows'[callId[d]] = rows[callId[d]]
  <1>1. callId[d] \in DOMAIN rows /\ rows[callId[d]].owner = d
    BY DEF Inv, InFlightHoldsRow, RecordBeforeUse, OnItsWay, Holding
  <1>2. CASE rows' = rows
    BY <1>1, <1>2
  <1>3. CASE pc[c] \in InFlight /\ Updated(callId[c])
    <2>1. rows[callId[c]].owner = c
      BY <1>3 DEF Inv, InFlightHoldsRow
    <2>2. callId[d] # callId[c]
      BY <1>1, <2>1
    <2> QED BY <1>1, <1>3, <2>2, UpdateFrame DEF Inv
  <1>4. CASE Appended(NewRow(PhaseOf[c], c, "reserved"))
    BY <1>1, <1>4, AppendFrame DEF Inv
  <1> QED BY <1>2, <1>3, <1>4, AttemptEffect DEF Inv, InFlight

(* Nor does it move the other caller. *)
LEMMA OthersStay ==
  ASSUME TypeOK, NEW c \in Callers, Attempt(c), NEW d \in Callers, d # c
  PROVE  pc'[d] = pc[d] /\ callId'[d] = callId[d]
  <1>1. pc'[d] = pc[d]
    BY DEF TypeOK, Attempt, Reserve, Refuse, Send, AnswerOk, AnswerFatal,
       AnswerTooLate, AnswerRetryable, Wake, Store, HookFails, Deliver, Goto
  <1>2. callId'[d] = callId[d]
    BY DEF TypeOK, Attempt, Reserve, Refuse, Send, AnswerOk, AnswerFatal,
       AnswerTooLate, AnswerRetryable, Wake, Store, HookFails, Deliver
  <1> QED BY <1>1, <1>2

(* The facts both invariants state of the row a caller holds. *)
Holds(c) ==
  /\ pc[c] \in InFlight =>
       /\ callId[c] \in DOMAIN rows
       /\ rows[callId[c]].owner = c
       /\ rows[callId[c]].status = "reserved"
       /\ rows[callId[c]].sends = IF pc[c] = "wire" THEN 1 ELSE 0
  /\ pc[c] \in {"hook", "deliver"} =>
       /\ callId[c] \in DOMAIN rows
       /\ rows[callId[c]].owner = c
       /\ rows[callId[c]].status = "ok"
       /\ pc[c] = "deliver" /\ c \in Hooked => callId[c] \in recorded

(* The caller that steps holds the row its new place calls for. *)
LEMMA StepperHolds ==
  ASSUME Inv, NEW c \in Callers, Attempt(c)
  PROVE  Holds(c)'
  <1> USE DEF Holds, Inv, InFlight
  <1>1. CASE Reserve(c)
    <2>1. Appended(NewRow(PhaseOf[c], c, "reserved"))
      BY <1>1, AttemptEffect, CallersAssumption
         DEF Reserve, Appended, NewRow, Row, Settled
    <2>2. pc'[c] = "limiter" /\ callId'[c] = Len(rows) + 1
      BY <1>1 DEF Reserve, Goto, TypeOK
    <2> QED BY <2>1, <2>2, AppendFrame DEF NewRow
  <1>2. CASE Send(c)
    <2>1. /\ pc'[c] = "wire" /\ callId'[c] = callId[c]
          /\ callId[c] \in DOMAIN rows
          /\ rows[callId[c]].owner = c
          /\ rows[callId[c]].status = "reserved"
          /\ rows[callId[c]].sends = 0
      BY <1>2 DEF Send, Goto, TypeOK, InFlightHoldsRow
    <2>2. rows[callId[c]] \in Row
      BY <2>1 DEF TypeOK
    <2>3. rows' = [rows EXCEPT ![callId[c]].sends = @ + 1]
      BY <1>2 DEF Send
    <2>4. rows'[callId[c]] = [rows[callId[c]] EXCEPT !.sends = @ + 1]
          /\ callId[c] \in DOMAIN rows'
      BY <2>1, <2>3 DEF TypeOK
    <2> QED BY <2>1, <2>2, <2>4 DEF Row
  <1>3. CASE AnswerOk(c)
    <2>1. /\ pc'[c] = "hook" /\ callId'[c] = callId[c]
          /\ callId[c] \in DOMAIN rows
          /\ rows[callId[c]].owner = c
      BY <1>3 DEF AnswerOk, Goto, TypeOK, InFlightHoldsRow
    <2>2. rows[callId[c]] \in Row
      BY <2>1 DEF TypeOK
    <2>3. rows' = [rows EXCEPT ![callId[c]].status = "ok"]
      BY <1>3 DEF AnswerOk, Finish
    <2>4. rows'[callId[c]] = [rows[callId[c]] EXCEPT !.status = "ok"]
          /\ callId[c] \in DOMAIN rows'
      BY <2>1, <2>3 DEF TypeOK
    <2> QED BY <2>1, <2>2, <2>4 DEF Row
  <1>4. CASE Store(c)
    BY <1>4 DEF Store, Goto, TypeOK, RecordBeforeUse, OnItsWay
  <1>5. CASE \/ AnswerFatal(c) \/ AnswerTooLate(c) \/ AnswerRetryable(c)
             \/ Refuse(c) \/ Wake(c) \/ HookFails(c) \/ Deliver(c)
    <2>1. pc'[c] \notin Holding
      BY <1>5 DEF AnswerFatal, AnswerTooLate, AnswerRetryable, Refuse, Wake,
         HookFails, Deliver, Goto, TypeOK, Holding
    <2> QED BY <2>1 DEF Holding
  <1> QED BY <1>1, <1>2, <1>3, <1>4, <1>5 DEF Attempt

(* What is recorded stays recorded. *)
LEMMA RecordedGrows ==
  ASSUME NEW c \in Callers, Attempt(c)
  PROVE  recorded \subseteq recorded'
  BY DEF Attempt, Reserve, Refuse, Send, AnswerOk, AnswerFatal, AnswerTooLate,
     AnswerRetryable, Wake, Store, HookFails, Deliver

(* After a caller's step every caller holds the row its place calls for. *)
LEMMA AttemptHolds ==
  ASSUME Inv, NEW c \in Callers, Attempt(c), NEW d \in Callers
  PROVE  Holds(d)'
  <1>1. CASE d = c
    BY <1>1, StepperHolds
  <1>2. CASE d # c
    <2>1. pc'[d] = pc[d] /\ callId'[d] = callId[d]
      BY <1>2, OthersStay DEF Inv
    <2>2. CASE pc[d] \in Holding
      <3>1. callId[d] \in DOMAIN rows' /\ rows'[callId[d]] = rows[callId[d]]
        BY <1>2, <2>2, OthersRows
      <3>2. Holds(d)
        BY DEF Inv, Holds, InFlightHoldsRow, RecordBeforeUse, OnItsWay
      <3> QED BY <2>1, <3>1, <3>2, RecordedGrows DEF Holds
    <2>3. CASE pc[d] \notin Holding
      BY <2>1, <2>3 DEF Holds, Holding
    <2> QED BY <2>2, <2>3
  <1> QED BY <1>1, <1>2

(* The row a caller updates was sent once at the most, and has been sent   *)
(* when it is settled. *)
LEMMA AttemptOneCall ==
  ASSUME Inv, NEW c \in Callers, Attempt(c)
  PROVE  OneCallPerRow'
  <1> DEFINE Fine(row) == row.sends <= 1 /\ (row.status # "reserved" => row.sends = 1)
  <1>0. \A i \in DOMAIN rows : Fine(rows[i])
    BY DEF Inv, OneCallPerRow
  <1> SUFFICES \A i \in DOMAIN rows' : Fine(rows'[i])
    BY DEF OneCallPerRow
  <1>1. CASE rows' = rows
    BY <1>0, <1>1
  <1>2. CASE Appended(NewRow(PhaseOf[c], c, "reserved"))
    BY <1>0, <1>2, AppendFrame DEF Inv, NewRow
  <1>3. CASE pc[c] \in InFlight /\ Updated(callId[c])
    <2>1. /\ DOMAIN rows' = DOMAIN rows
          /\ \A i \in DOMAIN rows : i # callId[c] => rows'[i] = rows[i]
      BY <1>3, UpdateFrame DEF Inv
    <2>2. Fine(rows'[callId[c]])
      <3>1. /\ callId[c] \in DOMAIN rows
            /\ rows[callId[c]] \in Row
            /\ rows[callId[c]].status = "reserved"
            /\ rows[callId[c]].sends = IF pc[c] = "wire" THEN 1 ELSE 0
        BY <1>3 DEF Inv, TypeOK, InFlightHoldsRow
      <3>2. CASE pc[c] = "limiter"
        <4>1. rows' = [rows EXCEPT ![callId[c]].sends = @ + 1]
          BY <3>2 DEF Attempt, Reserve, Refuse, Send, AnswerOk, AnswerFatal,
             AnswerTooLate, AnswerRetryable, Wake, Store, HookFails, Deliver
        <4>2. rows'[callId[c]] = [rows[callId[c]] EXCEPT !.sends = @ + 1]
          BY <3>1, <4>1 DEF Inv, TypeOK
        <4> QED BY <3>1, <3>2, <4>2 DEF Row
      <3>3. CASE pc[c] = "wire"
        <4>1. \E s \in Settled : rows' = [rows EXCEPT ![callId[c]].status = s]
          BY <3>3 DEF Attempt, Reserve, Refuse, Send, AnswerOk, AnswerFatal,
             AnswerTooLate, AnswerRetryable, Wake, Store, HookFails, Deliver,
             Finish, Settled
        <4>2. PICK s \in Settled : rows' = [rows EXCEPT ![callId[c]].status = s]
          BY <4>1
        <4>3. rows'[callId[c]] = [rows[callId[c]] EXCEPT !.status = s]
          BY <3>1, <4>2 DEF Inv, TypeOK
        <4> QED BY <3>1, <3>3, <4>3 DEF Row
      <3> QED BY <1>3, <3>2, <3>3 DEF InFlight
    <2> QED BY <1>0, <2>1, <2>2
  <1> QED BY <1>1, <1>2, <1>3, AttemptEffect DEF Inv, InFlight

(* A settled row is nobody's to change: a caller's step keeps it. *)
LEMMA AttemptKeepsSettled ==
  ASSUME Inv, NEW c \in Callers, Attempt(c),
         NEW i \in DOMAIN rows, rows[i].status \in Settled
  PROVE  i \in DOMAIN rows' /\ rows'[i] = rows[i]
  <1>1. CASE rows' = rows
    BY <1>1
  <1>2. CASE Appended(NewRow(PhaseOf[c], c, "reserved"))
    BY <1>2, AppendFrame DEF Inv
  <1>3. CASE pc[c] \in InFlight /\ Updated(callId[c])
    <2>1. i # callId[c]
      BY <1>3 DEF Inv, InFlightHoldsRow, Settled
    <2> QED BY <1>3, <2>1, UpdateFrame DEF Inv
  <1> QED BY <1>1, <1>2, <1>3, AttemptEffect DEF Inv, InFlight

(* What a step adds to the used responses was on its way to its caller. *)
LEMMA AttemptUsed ==
  ASSUME Inv, NEW c \in Callers, Attempt(c), NEW i \in used'
  PROVE  /\ i \in DOMAIN rows'
         /\ rows'[i].status = "ok"
         /\ rows'[i].owner \in Hooked => i \in recorded'
  <1>1. i \in DOMAIN rows /\ rows[i].status = "ok"
        /\ (rows[i].owner \in Hooked => i \in recorded)
    <2>1. CASE i \in used
      BY <2>1 DEF Inv, RecordBeforeUse
    <2>2. CASE i \notin used
      <3>1. pc[c] = "deliver" /\ i = callId[c]
        BY <2>2 DEF Attempt, Reserve, Refuse, Send, AnswerOk, AnswerFatal,
           AnswerTooLate, AnswerRetryable, Wake, Store, HookFails, Deliver
      <3> QED BY <3>1 DEF Inv, RecordBeforeUse, OnItsWay
    <2> QED BY <2>1, <2>2
  <1>2. i \in DOMAIN rows' /\ rows'[i] = rows[i]
    BY <1>1, AttemptKeepsSettled DEF Settled
  <1> QED BY <1>1, <1>2, RecordedGrows

(* A caller's step keeps the invariant. *)
LEMMA AttemptInv ==
  ASSUME Inv, NEW c \in Callers, Attempt(c)
  PROVE  Inv'
  <1>1. TypeOK'
    BY AttemptTypes DEF Inv
  <1>2. CapHolds'
    BY AttemptCap DEF Inv
  <1>3. \A d \in Callers : Holds(d)'
    BY AttemptHolds
  <1>4. InFlightHoldsRow'
    BY <1>3 DEF InFlightHoldsRow, Holds
  <1>5. OneCallPerRow'
    BY AttemptOneCall
  <1>6. RecordBeforeUse'
    BY <1>3, AttemptUsed DEF RecordBeforeUse, OnItsWay, Holds
  <1> QED BY <1>1, <1>2, <1>4, <1>5, <1>6 DEF Inv

-----------------------------------------------------------------------------
(* The steps around the loop.                                              *)

(* Beginning a call, being interrupted and crashing only move callers to   *)
(* where they hold no row. *)
LEMMA MovesAway ==
  ASSUME Inv, NEW D \in SUBSET Callers,
         pc' \in [Callers -> PC], callId' \in [Callers -> Nat],
         elapsed' \in [Callers -> Nat], calls' \in [Callers -> Nat], losses' \in Nat,
         UNCHANGED <<rows, recorded, used>>,
         \A d \in D : pc'[d] \notin Holding,
         \A d \in Callers \ D : pc'[d] = pc[d] /\ callId'[d] = callId[d]
  PROVE  Inv'
  <1>1. TypeOK'
    BY DEF Inv, TypeOK
  <1>2. CapHolds' /\ OneCallPerRow'
    BY DEF Inv, CapHolds, OneCallPerRow, InScope
  <1>3. InFlightHoldsRow'
    BY DEF Inv, InFlightHoldsRow, Holding
  <1>4. RecordBeforeUse'
    BY DEF Inv, RecordBeforeUse, OnItsWay, Holding
  <1> QED BY <1>1, <1>2, <1>3, <1>4 DEF Inv

(* A row written by record() disturbs nobody. *)
LEMMA RampInv ==
  ASSUME Inv, NEW p \in Phases, RampRecord(p)
  PROVE  Inv'
  <1> DEFINE row == [NewRow(p, Ramp, "ok") EXCEPT !.sends = 1]
  <1>1. row \in Row /\ row.owner = Ramp /\ row.sends = 1
    BY DEF NewRow, Row, Settled
  <1>2. Appended(row)
    BY <1>1 DEF RampRecord, Appended
  <1>3. TypeOK'
    BY <1>2, AppendFrame DEF Inv, TypeOK, RampRecord
  <1>4. CapHolds'
    <2>1. row.owner \notin Callers
      BY <1>1, CallersAssumption
    <2> QED BY <1>2, <2>1, CapInsert DEF Inv
  <1>5. /\ \A i \in DOMAIN rows : i \in DOMAIN rows' /\ rows'[i] = rows[i]
        /\ DOMAIN rows' = DOMAIN rows \union {Len(rows) + 1}
        /\ rows'[Len(rows) + 1] = row
    BY <1>2, AppendFrame DEF Inv
  <1>6. OneCallPerRow'
    <2> HIDE DEF row
    <2> QED BY <1>1, <1>5 DEF Inv, OneCallPerRow
  <1>7. InFlightHoldsRow' /\ RecordBeforeUse'
    BY <1>5 DEF Inv, InFlightHoldsRow, RecordBeforeUse, OnItsWay, RampRecord
  <1> QED BY <1>3, <1>4, <1>6, <1>7 DEF Inv

(* Every step keeps the invariant. *)
LEMMA NextInv == Inv /\ [Next]_vars => Inv'
  <1> SUFFICES ASSUME Inv, [Next]_vars PROVE Inv'
    OBVIOUS
  <1>1. ASSUME NEW c \in Callers, Begin(c) PROVE Inv'
    <2>1. /\ pc' \in [Callers -> PC] /\ callId' \in [Callers -> Nat]
          /\ elapsed' \in [Callers -> Nat] /\ calls' \in [Callers -> Nat]
          /\ losses' \in Nat
      BY <1>1 DEF Inv, TypeOK, Begin, Goto, PC
    <2>2. pc'[c] \notin Holding
      BY <1>1 DEF Inv, TypeOK, Begin, Goto, Holding, InFlight
    <2>3. \A d \in Callers \ {c} : pc'[d] = pc[d] /\ callId'[d] = callId[d]
      BY <1>1 DEF Inv, TypeOK, Begin, Goto
    <2>4. UNCHANGED <<rows, recorded, used>>
      BY <1>1 DEF Begin
    <2>5. {c} \in SUBSET Callers /\ \A d \in {c} : pc'[d] \notin Holding
      BY <2>2
    <2> QED BY <2>1, <2>3, <2>4, <2>5, MovesAway
  <1>2. ASSUME NEW c \in Callers, Attempt(c) PROVE Inv'
    BY <1>2, AttemptInv
  <1>3. ASSUME NEW c \in Callers, Interrupt(c) PROVE Inv'
    <2>1. /\ pc' \in [Callers -> PC] /\ callId' \in [Callers -> Nat]
          /\ elapsed' \in [Callers -> Nat] /\ calls' \in [Callers -> Nat]
          /\ losses' \in Nat
      BY <1>3 DEF Inv, TypeOK, Interrupt, Goto, PC, Resting
    <2>2. pc'[c] \notin Holding
      BY <1>3 DEF Inv, TypeOK, Interrupt, Goto, Holding, InFlight
    <2>3. \A d \in Callers \ {c} : pc'[d] = pc[d] /\ callId'[d] = callId[d]
      BY <1>3 DEF Inv, TypeOK, Interrupt, Goto
    <2>4. UNCHANGED <<rows, recorded, used>>
      BY <1>3 DEF Interrupt
    <2>5. {c} \in SUBSET Callers /\ \A d \in {c} : pc'[d] \notin Holding
      BY <2>2
    <2> QED BY <2>1, <2>3, <2>4, <2>5, MovesAway
  <1>4. ASSUME NEW p \in Procs, Crash(p) PROVE Inv'
    <2> DEFINE D == {c \in Callers : ProcOf[c] = p}
    <2>1. /\ pc' \in [Callers -> PC] /\ callId' \in [Callers -> Nat]
          /\ elapsed' \in [Callers -> Nat] /\ calls' \in [Callers -> Nat]
          /\ losses' \in Nat
      BY <1>4 DEF Inv, TypeOK, Crash, PC, Resting
    <2>2. \A d \in D : pc'[d] \notin Holding
      BY <1>4 DEF Crash, Holding, InFlight
    <2>3. \A d \in Callers \ D : pc'[d] = pc[d] /\ callId'[d] = callId[d]
      BY <1>4 DEF Crash
    <2>4. UNCHANGED <<rows, recorded, used>>
      BY <1>4 DEF Crash
    <2> QED BY <2>1, <2>2, <2>3, <2>4, MovesAway
  <1>5. ASSUME NEW p \in Phases, RampRecord(p) PROVE Inv'
    BY <1>5, RampInv
  <1>6. CASE UNCHANGED vars
    <2>1. \A d \in Callers : pc'[d] = pc[d] /\ callId'[d] = callId[d]
      BY <1>6 DEF vars
    <2>2. /\ pc' \in [Callers -> PC] /\ callId' \in [Callers -> Nat]
          /\ elapsed' \in [Callers -> Nat] /\ calls' \in [Callers -> Nat]
          /\ losses' \in Nat
      BY <1>6 DEF vars, Inv, TypeOK
    <2>3. UNCHANGED <<rows, recorded, used>>
      BY <1>6 DEF vars
    <2> QED BY <2>1, <2>2, <2>3, MovesAway, {} \in SUBSET Callers
  <1> QED BY <1>1, <1>2, <1>3, <1>4, <1>5, <1>6 DEF Next

-----------------------------------------------------------------------------
(* Theorems.                                                               *)

(* The whole invariant holds of every behaviour. *)
THEOREM LedgerInvariant == Spec => []Inv
  <1> QED BY InitInv, NextInv, PTL DEF Spec

(* The variables keep their types. *)
THEOREM LedgerTypes == Spec => []TypeOK
  <1>1. Inv => TypeOK
    BY DEF Inv
  <1> QED BY <1>1, LedgerInvariant, PTL

(* No interleaving of callers, crashes, interrupts and after-the-fact rows *)
(* lets a capped caller reserve a row beyond its cap. *)
THEOREM CapIsHard == Spec => []CapHolds
  <1>1. Inv => CapHolds
    BY DEF Inv
  <1> QED BY <1>1, LedgerInvariant, PTL

(* Every call in flight holds a reserved row of its own, and no row pays   *)
(* for two calls. *)
THEOREM CallsArePaid == Spec => []PaidBeforeSent
  <1>1. Inv => PaidBeforeSent
    BY DEF Inv, PaidBeforeSent
  <1> QED BY <1>1, LedgerInvariant, PTL

(* No response is used before the hook has it and the ledger shows it ok. *)
THEOREM RecordedBeforeUsed == Spec => []RecordBeforeUse
  <1>1. Inv => RecordBeforeUse
    BY DEF Inv
  <1> QED BY <1>1, LedgerInvariant, PTL

(* Rows are never removed, moved to another phase, or changed once they    *)
(* have an outcome: a crash or a rival process cannot hand calls back. *)
THEOREM SpendingIsPermanent == Spec => RowsArePermanent
  <1> DEFINE Kept == /\ Len(rows') >= Len(rows)
                     /\ \A i \in DOMAIN rows :
                          /\ rows'[i].phase = rows[i].phase
                          /\ rows[i].status \in Settled => rows'[i] = rows[i]
  <1>1. Inv /\ [Next]_vars => [Kept]_rows
    <2> SUFFICES ASSUME Inv, [Next]_vars PROVE Kept \/ rows' = rows
      OBVIOUS
    <2>0. Len(rows) \in Nat
      BY DEF Inv, TypeOK
    <2>1. ASSUME NEW c \in Callers, Attempt(c) PROVE Kept \/ rows' = rows
      <3>1. CASE \E id : Updated(id)
        <4>1. Len(rows') = Len(rows) /\ \A i \in DOMAIN rows : rows'[i].phase = rows[i].phase
          BY <3>1, UpdateFrame DEF Inv
        <4> QED BY <2>0, <2>1, <4>1, AttemptKeepsSettled
      <3>2. CASE Appended(NewRow(PhaseOf[c], c, "reserved"))
        BY <2>0, <3>2, AppendFrame DEF Inv
      <3> QED BY <2>1, <3>1, <3>2, AttemptEffect DEF Inv
    <2>2. ASSUME NEW p \in Phases, RampRecord(p) PROVE Kept
      <3> DEFINE row == [NewRow(p, Ramp, "ok") EXCEPT !.sends = 1]
      <3>1. row \in Row
        BY DEF NewRow, Row, Settled
      <3>2. Appended(row)
        BY <2>2, <3>1 DEF RampRecord, Appended
      <3> HIDE DEF row
      <3> QED BY <2>0, <3>2, AppendFrame DEF Inv
    <2>3. CASE \/ \E c \in Callers : Begin(c) \/ Interrupt(c)
               \/ \E p \in Procs : Crash(p)
               \/ UNCHANGED vars
      BY <2>3 DEF Begin, Interrupt, Crash, vars
    <2> QED BY <2>1, <2>2, <2>3 DEF Next
  <1> QED BY <1>1, LedgerInvariant, PTL DEF Spec, RowsArePermanent

-----------------------------------------------------------------------------
(* The promise to a group that shares a budget.                            *)

(* A caller's rows are booked under its phase. *)
Booked == \A i \in DOMAIN rows :
            rows[i].owner \in Callers => rows[i].phase = PhaseOf[rows[i].owner]

(* Every step keeps the rows booked. *)
LEMMA NextBooked == Inv /\ Booked /\ [Next]_vars => Booked'
  <1> SUFFICES ASSUME Inv, Booked, [Next]_vars PROVE Booked'
    OBVIOUS
  <1>1. ASSUME NEW c \in Callers, Attempt(c) PROVE Booked'
    <2>1. CASE \E id : Updated(id)
      <3>1. /\ DOMAIN rows' = DOMAIN rows
            /\ \A i \in DOMAIN rows : /\ rows'[i].phase = rows[i].phase
                                      /\ rows'[i].owner = rows[i].owner
        BY <2>1, UpdateFrame DEF Inv
      <3> QED BY <3>1 DEF Booked
    <2>2. CASE Appended(NewRow(PhaseOf[c], c, "reserved"))
      <3>1. /\ NewRow(PhaseOf[c], c, "reserved").owner = c
            /\ NewRow(PhaseOf[c], c, "reserved").phase = PhaseOf[c]
        BY DEF NewRow
      <3> QED BY <2>2, <3>1, AppendFrame DEF Inv, Booked
    <2>3. CASE rows' = rows
      BY <2>3 DEF Booked
    <2> QED BY <1>1, <2>1, <2>2, <2>3, AttemptEffect DEF Inv
  <1>2. ASSUME NEW p \in Phases, RampRecord(p) PROVE Booked'
    <2> DEFINE row == [NewRow(p, Ramp, "ok") EXCEPT !.sends = 1]
    <2>1. row \in Row /\ row.owner \notin Callers
      BY CallersAssumption DEF NewRow, Row, Settled
    <2>2. Appended(row)
      BY <1>2, <2>1 DEF RampRecord, Appended
    <2> HIDE DEF row
    <2> QED BY <2>1, <2>2, AppendFrame DEF Inv, Booked
  <1>3. CASE \/ \E c \in Callers : Begin(c) \/ Interrupt(c)
             \/ \E p \in Procs : Crash(p)
             \/ UNCHANGED vars
    BY <1>3 DEF Begin, Interrupt, Crash, vars, Booked
  <1> QED BY <1>1, <1>2, <1>3 DEF Next

(* Room for one member of the group is room for the group: its rows are    *)
(* all in that member's scope. *)
LEMMA GroupFits ==
  ASSUME TypeOK, Booked, NEW c \in Group, HasRoom(c)
  PROVE  GroupCap # NoCap => Cardinality(GroupRows) < GroupCap
  <1> SUFFICES ASSUME GroupCap # NoCap PROVE Cardinality(GroupRows) < GroupCap
    OBVIOUS
  <1>1. c \in Callers /\ MaxCalls[c] = GroupCap /\ GroupCap \in Nat
    BY GroupAssumption, CapAssumption
  <1>2. Cardinality(ScopeRows(c)) < GroupCap
    BY <1>1 DEF HasRoom
  <1>3. GroupRows \subseteq ScopeRows(c)
    BY GroupAssumption DEF GroupRows, ScopeRows, InScope, Booked
  <1>4. IsFiniteSet(ScopeRows(c))
    <2>1. DOMAIN rows = 1..Len(rows) /\ Len(rows) \in Nat
      BY DEF TypeOK
    <2>2. IsFiniteSet(1..Len(rows))
      BY <2>1, FS_Interval
    <2>3. ScopeRows(c) \subseteq 1..Len(rows)
      BY <2>1 DEF ScopeRows
    <2> QED BY <2>2, <2>3, FS_Subset
  <1>5. Cardinality(GroupRows) <= Cardinality(ScopeRows(c))
        /\ Cardinality(GroupRows) \in Nat /\ Cardinality(ScopeRows(c)) \in Nat
    BY <1>3, <1>4, FS_Subset, FS_CardinalityType
  <1> QED BY <1>1, <1>2, <1>5

(* A step that inserts a row, seen by the group: a claim if the row is a   *)
(* member's, nothing otherwise. *)
LEMMA InsertSeen ==
  ASSUME TypeOK, NEW row, Appended(row)
  PROVE  /\ row.owner \in Group /\ row.sends = 0 =>
              /\ GroupRows' = GroupRows \union {Len(rows) + 1}
              /\ GroupSent' = GroupSent
         /\ row.owner \notin Group =>
              GroupRows' = GroupRows /\ GroupSent' = GroupSent
  <1>1. /\ DOMAIN rows' = DOMAIN rows \union {Len(rows) + 1}
        /\ Len(rows) + 1 \notin DOMAIN rows
        /\ \A i \in DOMAIN rows : rows'[i] = rows[i]
        /\ rows'[Len(rows) + 1] = row
    BY AppendFrame
  <1>2. CASE row.owner \in Group /\ row.sends = 0
    BY <1>1, <1>2 DEF GroupRows, GroupSent
  <1>3. CASE row.owner \notin Group
    BY <1>1, <1>3 DEF GroupRows, GroupSent
  <1> QED BY <1>2, <1>3

(* A step that updates a row inserts nothing the group could see. *)
LEMMA UpdateSeen ==
  ASSUME TypeOK, NEW id, Updated(id)
  PROVE  /\ GroupRows' = GroupRows
         /\ rows'[id].sends = rows[id].sends => GroupSent' = GroupSent
         /\ rows'[id].sends > 0 /\ id \in GroupRows => GroupSent' = GroupSent \union {id}
         /\ id \notin GroupRows => GroupSent' = GroupSent
  <1>1. /\ DOMAIN rows' = DOMAIN rows
        /\ \A i \in DOMAIN rows : i # id => rows'[i] = rows[i]
        /\ \A i \in DOMAIN rows : rows'[i].owner = rows[i].owner
    BY UpdateFrame
  <1>2. GroupRows' = GroupRows
    BY <1>1 DEF GroupRows
  <1> QED BY <1>1, <1>2 DEF GroupSent, GroupRows

(* The cardinality the promise counts with is the usual one. *)
LEMMA SameCount == \A S : Promise!Cardinality(S) = Cardinality(S)
  BY DEF Promise!Cardinality, Cardinality

(* Each caller's step is a claim, a send or nothing to the group. *)
LEMMA AttemptPromised ==
  ASSUME Inv, Booked, Nat \ {0} \subseteq RowIds, NEW c \in Callers, Attempt(c)
  PROVE  Promise!Next \/ (GroupRows' = GroupRows /\ GroupSent' = GroupSent)
  <1> USE DEF Inv
  <1>1. CASE Reserve(c)
    <2> DEFINE row == NewRow(PhaseOf[c], c, "reserved")
    <2>1. row \in Row /\ row.owner = c /\ row.sends = 0
      BY CallersAssumption DEF NewRow, Row
    <2>2. Appended(row) /\ HasRoom(c)
      BY <1>1, <2>1 DEF Reserve, Appended
    <2> HIDE DEF row
    <2>3. CASE c \in Group
      <3>1. GroupCap # NoCap => Cardinality(GroupRows) < GroupCap
        BY <2>2, <2>3, GroupFits
      <3>2. GroupRows' = GroupRows \union {Len(rows) + 1} /\ GroupSent' = GroupSent
        BY <2>1, <2>2, <2>3, InsertSeen
      <3>3. Len(rows) + 1 \in RowIds \ GroupRows
        <4>1. Len(rows) + 1 \notin DOMAIN rows /\ Len(rows) + 1 \in Nat \ {0}
          BY DEF TypeOK
        <4> QED BY <4>1 DEF GroupRows
      <3>4. \E id \in RowIds \ GroupRows : GroupRows' = GroupRows \union {id}
        BY <3>2, <3>3
      <3>5. Promise!Claim
        BY <3>1, <3>2, <3>4, SameCount, Zenon DEF Promise!Claim
      <3> QED BY <3>5 DEF Promise!Next
    <2>4. CASE c \notin Group
      BY <2>1, <2>2, <2>4, InsertSeen
    <2> QED BY <2>3, <2>4
  <1>2. CASE Send(c)
    <2> DEFINE id == callId[c]
    <2>1. /\ id \in DOMAIN rows /\ rows[id] \in Row
          /\ rows[id].owner = c /\ rows[id].sends = 0
      BY <1>2 DEF Send, InFlightHoldsRow, InFlight, TypeOK
    <2>2. Updated(id)
      BY <1>2, <2>1 DEF Send, Updated
    <2>3. rows'[id].sends = 1
      <3>1. rows'[id] = [rows[id] EXCEPT !.sends = @ + 1]
        BY <1>2, <2>1 DEF Send, TypeOK
      <3> QED BY <2>1, <3>1 DEF Row
    <2> HIDE DEF id
    <2>4. CASE c \in Group
      <3>1. id \in GroupRows \ GroupSent
        BY <2>1, <2>4 DEF GroupRows, GroupSent
      <3>2. GroupRows' = GroupRows /\ GroupSent' = GroupSent \union {id}
        BY <2>2, <2>3, <3>1, UpdateSeen
      <3> QED BY <3>1, <3>2 DEF Promise!Next, Promise!Send
    <2>5. CASE c \notin Group
      <3>1. id \notin GroupRows
        BY <2>1, <2>5 DEF GroupRows
      <3> QED BY <2>2, <3>1, UpdateSeen
    <2> QED BY <2>4, <2>5
  <1>3. CASE AnswerOk(c) \/ AnswerFatal(c) \/ AnswerTooLate(c) \/ AnswerRetryable(c)
    <2> DEFINE id == callId[c]
    <2>1. id \in DOMAIN rows /\ rows[id] \in Row
      BY <1>3 DEF AnswerOk, AnswerFatal, AnswerTooLate, AnswerRetryable,
                  InFlightHoldsRow, InFlight, TypeOK
    <2>2. \E s \in Settled : rows' = [rows EXCEPT ![id].status = s]
      BY <1>3 DEF AnswerOk, AnswerFatal, AnswerTooLate, AnswerRetryable, Finish, Settled
    <2>3. Updated(id)
      BY <2>1, <2>2 DEF Updated
    <2>4. rows'[id].sends = rows[id].sends
      <3>1. PICK s \in Settled : rows' = [rows EXCEPT ![id].status = s]
        BY <2>2
      <3>2. rows'[id] = [rows[id] EXCEPT !.status = s]
        BY <2>1, <3>1 DEF TypeOK
      <3> QED BY <2>1, <3>2 DEF Row
    <2> QED BY <2>3, <2>4, UpdateSeen
  <1>4. CASE Refuse(c) \/ Wake(c) \/ Store(c) \/ HookFails(c) \/ Deliver(c)
    <2>1. rows' = rows
      BY <1>4 DEF Refuse, Wake, Store, HookFails, Deliver
    <2> QED BY <2>1 DEF GroupRows, GroupSent
  <1> QED BY <1>1, <1>2, <1>3, <1>4 DEF Attempt

(* The ledger implements the budget it promises any group of callers that  *)
(* opened it alike, for every number of rival callers, caps and crashes. *)
THEOREM LedgerKeepsPromise ==
  ASSUME Nat \ {0} \subseteq RowIds
  PROVE  Spec => KeepsPromise
  <1>1. Init => Promise!Init
    BY DEF Init, Promise!Init, GroupRows, GroupSent
  <1>2. Init => Booked
    BY DEF Init, Booked
  <1>3. Inv /\ Booked /\ [Next]_vars => [Promise!Next]_<<GroupRows, GroupSent>>
    <2> SUFFICES ASSUME Inv, Booked, [Next]_vars
                 PROVE  Promise!Next \/ (GroupRows' = GroupRows /\ GroupSent' = GroupSent)
      OBVIOUS
    <2>1. ASSUME NEW c \in Callers, Attempt(c)
          PROVE  Promise!Next \/ (GroupRows' = GroupRows /\ GroupSent' = GroupSent)
      BY <2>1, AttemptPromised
    <2>2. ASSUME NEW p \in Phases, RampRecord(p)
          PROVE  GroupRows' = GroupRows /\ GroupSent' = GroupSent
      <3> DEFINE row == [NewRow(p, Ramp, "ok") EXCEPT !.sends = 1]
      <3>1. row \in Row /\ row.owner \notin Group
        BY CallersAssumption, GroupAssumption DEF NewRow, Row, Settled
      <3>2. Appended(row)
        BY <2>2, <3>1 DEF RampRecord, Appended
      <3> HIDE DEF row
      <3> QED BY <3>1, <3>2, InsertSeen DEF Inv
    <2>3. CASE \/ \E c \in Callers : Begin(c) \/ Interrupt(c)
               \/ \E p \in Procs : Crash(p)
               \/ UNCHANGED vars
      BY <2>3 DEF Begin, Interrupt, Crash, vars, GroupRows, GroupSent
    <2> QED BY <2>1, <2>2, <2>3 DEF Next
  <1>4. Spec => []Booked
    BY <1>2, NextBooked, LedgerInvariant, PTL DEF Spec
  <1> QED BY <1>1, <1>3, <1>4, LedgerInvariant, PTL DEF Spec, KeepsPromise, Promise!Spec
=============================================================================

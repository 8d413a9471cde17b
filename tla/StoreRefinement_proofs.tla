----------------------- MODULE StoreRefinement_proofs -----------------------
(***************************************************************************)
(* What a single worker is promised on top of StatePipeline_proofs: nobody *)
(* changes the row between its read and its write, so that a request takes *)
(* effect as one step of RestStore, whatever the operations and the inputs.*)
(***************************************************************************)
EXTENDS StoreRefinement, StatePipeline_proofs

Carrying == {"checkRead", "checkParameter", "deserialize"} \cup Late

BeforeWrite == {"negotiate", "parameters", "read"} \cup Carrying

(* An operation whose body completes the object that was read.             *)
Completes(op) ==
  op.method \in {"POST", "PATCH"} \/ (op.method = "PUT" /\ ~op.standardPut)

(* The previous data of a request are the row it is about.                 *)
Current(r, row) ==
  r.pc \in Carrying =>
    /\ ~canRead(r.op) => r.previous = NoRow
    /\ r.previous # NoRow => row = r.previous

(* The object that waits to be written is what the body makes of the row.  *)
BodyIn(r) ==
  r.pc \in Late =>
    /\ r.previous # NoRow => r.data # "null"
    /\ r.data = "entity" =>
         IF canDeserialize(r.op)
         THEN Completes(r.op) /\ r.entity = Denormalized(r.loaded, r.input.body)
         ELSE r.entity = r.loaded
    /\ r.data = "fresh" =>
         /\ canDeserialize(r.op) /\ r.fresh = Sent(r)
         /\ Completes(r.op) => r.previous = NoRow

Validated(r) ==
  r.pc \in {"checkValidated", "write"} /\ canValidate(r.op) /\ Data(r) # NoRow
    => Data(r) \in ValidRows

(* A promise of the method is kept when its answer is rendered.            *)
Effective(r) ==
  /\ r.pc \in BeforeWrite => r.committed = NoRow
  /\ r.pc = "refresh" =>
       /\ r.committed # NoRow
       /\ Replaces(r) => r.committed = Sent(r)
  /\ r.pc \in {"serialize", "respond"} /\ kindOf(r.op) \notin {"fetch", "custom"}
       => wrote(r)

Serial(r, row) ==
  Current(r, row) /\ BodyIn(r) /\ Validated(r) /\ Effective(r)

SInv ==
  /\ RowsAreValid
  /\ \A i \in Ids : rows[i] # NoRow => i \in taken
  /\ \A w \in Workers : Serial(worker[w], rows[worker[w].id])

(* What each step is shown to do: keep SInv, and be a step of RestStore or *)
(* none.                                                                   *)
Refines == SInv' /\ [Store!Next]_(Store!vars)

-----------------------------------------------------------------------------
(* The kinds of steps                                                      *)

(* The call seen from outside depends on five fields and the phase.        *)
LEMMA CallKept ==
  ASSUME NEW r, NEW q, q.op = r.op, q.id = r.id, q.input = r.input,
         q.status = r.status, phaseOf(q) = phaseOf(r)
  PROVE  callOf(q) = callOf(r)
  BY DEF callOf

LEMMA PhaseCalled ==
  ASSUME NEW q, q.pc \in BeforeWrite
  PROVE  phaseOf(q) = "called"
  BY DEF phaseOf, wrote, BeforeWrite, Carrying, Late

(* A single worker: its calls before and after a step.                     *)
LEMMA OneCall ==
  ASSUME IInv, NEW w \in Workers, Workers = {w}, NEW q, Become(w, q)
  PROVE  /\ worker'[w] = q /\ worker' = [v \in Workers |-> q]
         /\ [v \in Workers |-> callOf(worker[v])]
              = [v \in Workers |-> callOf(worker[w])]
         /\ [v \in Workers |-> callOf(worker'[v])]
              = [v \in Workers |-> callOf(q)]
  BY DEF IInv, WorkersInv, Become

LEMMA SerialLocal ==
  ASSUME IInv, SInv, NEW w \in Workers, Workers = {w}, NEW q, Become(w, q),
         LocalStep, Serial(q, rows[q.id])
  PROVE  SInv'
<1>1. worker'[w] = q
  BY OneCall
<1> QED
  BY <1>1 DEF SInv, RowsAreValid, LocalStep

(* A step inside the chain.                                                *)
LEMMA Stutters ==
  ASSUME IInv, SInv, NEW w \in Workers, Workers = {w}, NEW q, Become(w, q),
         LocalStep, Serial(q, rows[q.id]), callOf(q) = callOf(worker[w])
  PROVE  Refines
<1>1. SInv'
  BY SerialLocal
<1>2. [v \in Workers |-> callOf(worker'[v])]
        = [v \in Workers |-> callOf(worker[v])]
  BY OneCall
<1>3. UNCHANGED Store!vars
  BY <1>2 DEF Store!vars, LocalStep
<1> QED
  BY <1>1, <1>3 DEF Refines

LEMMA AnsweredPhase ==
  ASSUME NEW q, q.pc = "answered"
  PROVE  phaseOf(q) = "answered"
  BY DEF phaseOf, wrote

LEMMA CallFields ==
  ASSUME NEW r
  PROVE  LET c == callOf(r)
         IN  /\ c = [phase |-> c.phase, kind |-> c.kind, id |-> c.id,
                     body |-> c.body, status |-> c.status]
             /\ c.phase = phaseOf(r) /\ c.kind = kindOf(r.op) /\ c.id = r.id
             /\ c.body = r.input.body /\ c.status = r.status
  BY DEF callOf

(* The calls of a single client, before and after.                         *)
LEMMA ChangedCall ==
  ASSUME NEW S, NEW w \in S, S = {w}, NEW phase, NEW kind, NEW id, NEW body,
         NEW status, NEW x, NEW y, NEW c, NEW d,
         c = [phase |-> phase, kind |-> kind, id |-> id, body |-> body,
              status |-> status]
  PROVE  /\ d = [phase |-> x, kind |-> kind, id |-> id, body |-> body,
                 status |-> y]
              => [v \in S |-> d]
                   = [[v \in S |-> c] EXCEPT ![w].phase = x, ![w].status = y]
         /\ d = [phase |-> x, kind |-> kind, id |-> y, body |-> body,
                 status |-> status]
              => [v \in S |-> d]
                   = [[v \in S |-> c] EXCEPT ![w].phase = x, ![w].id = y]
  OBVIOUS

(* An answer.                                                              *)
LEMMA Answers ==
  ASSUME IInv, SInv, NEW w \in Workers, Workers = {w},
         NEW status, NEW q, Become(w, q), LocalStep, q.pc = "answered",
         q.op = worker[w].op, q.id = worker[w].id,
         q.input = worker[w].input, q.status = status,
         \/ /\ phaseOf(worker[w]) = "called" /\ status \in Store!Refusals
         \/ /\ phaseOf(worker[w]) = "done" /\ status \in Store!OutputFailures
         \/ /\ \/ phaseOf(worker[w]) = "done"
               \/ /\ phaseOf(worker[w]) = "called"
                  /\ kindOf(worker[w].op) \in {"fetch", "custom"}
            /\ status \in Store!successOf(kindOf(worker[w].op))
  PROVE  Refines
<1> DEFINE r == worker[w]
           call == [v \in Workers |-> callOf(worker[v])]
<1>1. /\ q.pc = "answered" /\ q.op = r.op /\ q.id = r.id /\ q.input = r.input
      /\ q.status = status
  OBVIOUS
<1>2. Serial(q, rows[q.id])
  BY <1>1 DEF Serial, Current, BodyIn, Validated, Effective, Carrying, Late,
     BeforeWrite
<1>3. SInv'
  BY <1>2, SerialLocal
<1>4. call' = [call EXCEPT ![w].phase = "answered", ![w].status = status]
  <2>1. /\ callOf(r) = [phase |-> phaseOf(r), kind |-> kindOf(r.op),
                        id |-> r.id, body |-> r.input.body, status |-> r.status]
        /\ callOf(q) = [phase |-> "answered", kind |-> kindOf(r.op),
                        id |-> r.id, body |-> r.input.body, status |-> status]
    <3> HIDE DEF r
    <3> QED BY <1>1, AnsweredPhase DEF callOf
  <2>2. /\ call = [v \in Workers |-> callOf(r)]
        /\ call' = [v \in Workers |-> callOf(q)]
    BY OneCall
  <2> HIDE DEF call, r
  <2>3. PICK c, d :
          /\ call = [v \in Workers |-> c] /\ call' = [v \in Workers |-> d]
          /\ c = [phase |-> phaseOf(r), kind |-> kindOf(r.op), id |-> r.id,
                  body |-> r.input.body, status |-> r.status]
          /\ d = [phase |-> "answered", kind |-> kindOf(r.op), id |-> r.id,
                  body |-> r.input.body, status |-> status]
    BY <2>1, <2>2, Zenon
  <2>4. [v \in Workers |-> d]
          = [[v \in Workers |-> c] EXCEPT
               ![w].phase = "answered", ![w].status = status]
    BY <2>3, ChangedCall, Zenon
  <2> QED
    BY <2>3, <2>4, Zenon
<1>5. Store!Answer(w, status)
  BY <1>4 DEF Store!Answer, LocalStep
<1>6. call[w].phase = phaseOf(r) /\ call[w].kind = kindOf(r.op)
  BY DEF callOf
<1>7. Store!Refuse(w) \/ Store!FailToAnswer(w) \/ Store!Succeed(w)
  BY <1>5, <1>6 DEF Store!Refuse, Store!FailToAnswer, Store!Succeed
<1> QED
  BY <1>3, <1>7 DEF Refines, Store!Next

(* The one step in which a request changes the table.                      *)
LEMMA TakesEffect ==
  ASSUME IInv, NEW w \in Workers, Workers = {w}, NEW q, Become(w, q),
         q.op = worker[w].op, q.input = worker[w].input,
         q.status = worker[w].status,
         phaseOf(worker[w]) = "called", phaseOf(q) = "done",
         NEW row, rows' = [rows EXCEPT ![q.id] = row],
         taken' = IF row = NoRow THEN taken ELSE taken \cup {q.id}
  PROVE  Store!Effect(w, q.id, row)
<1> DEFINE r == worker[w]
           call == [v \in Workers |-> callOf(worker[v])]
<1>1. call' = [call EXCEPT ![w].phase = "done", ![w].id = q.id]
  <2>1. /\ callOf(r) = [phase |-> phaseOf(r), kind |-> kindOf(r.op),
                        id |-> r.id, body |-> r.input.body, status |-> r.status]
        /\ callOf(q) = [phase |-> "done", kind |-> kindOf(r.op),
                        id |-> q.id, body |-> r.input.body, status |-> r.status]
    BY DEF callOf
  <2>2. /\ call = [v \in Workers |-> callOf(r)]
        /\ call' = [v \in Workers |-> callOf(q)]
    BY OneCall
  <2> HIDE DEF call, r
  <2>3. PICK c, d :
          /\ call = [v \in Workers |-> c] /\ call' = [v \in Workers |-> d]
          /\ c = [phase |-> phaseOf(r), kind |-> kindOf(r.op), id |-> r.id,
                  body |-> r.input.body, status |-> r.status]
          /\ d = [phase |-> "done", kind |-> kindOf(r.op), id |-> q.id,
                  body |-> r.input.body, status |-> r.status]
    BY <2>1, <2>2, Zenon
  <2>4. [v \in Workers |-> d]
          = [[v \in Workers |-> c] EXCEPT ![w].phase = "done", ![w].id = q.id]
    BY <2>3, ChangedCall, Zenon
  <2> QED
    BY <2>3, <2>4, Zenon
<1>2. call[w].phase = "called"
  BY CallFields
<1> QED
  BY <1>1, <1>2 DEF Store!Effect

(* An exception of the chain, before the effect or after it.               *)
LEMMA RejectAnswers ==
  ASSUME IInv, SInv, NEW w \in Workers, Workers = {w}, NEW status,
         Reject(w, status), LocalStep,
         \/ phaseOf(worker[w]) = "called" /\ status \in Store!Refusals
         \/ phaseOf(worker[w]) = "done" /\ status \in Store!OutputFailures
  PROVE  Refines
<1> DEFINE q == Answered(worker[w], status)
<1>1. /\ q.pc = "answered" /\ q.op = worker[w].op /\ q.id = worker[w].id
      /\ q.input = worker[w].input /\ q.status = status
  BY DEF Answered, IInv, Request
<1>2. Become(w, q)
  BY DEF Reject
<1> HIDE DEF q
<1> QED
  BY <1>1, <1>2, Answers

-----------------------------------------------------------------------------
(* The providers                                                           *)

(* The request carries its row and its object along the chain.             *)
LEMMA MoveRefines ==
  ASSUME IInv, SInv, NEW w \in Workers, Workers = {w}, NEW pc, Goto(w, pc),
         LocalStep,
         LET r == worker[w]
         IN  \/ r.pc \in {"negotiate", "parameters"} /\ pc \in {"parameters", "read"}
             \/ /\ r.pc \in {"checkRead", "checkParameter"}
                /\ pc \in {"checkParameter", "deserialize"}
             \/ r.pc = "checkDenormalized" /\ pc = "validate"
             \/ /\ r.pc = "validate" /\ pc = "checkValidated"
                /\ canValidate(r.op) /\ Data(r) # NoRow => Data(r) \in ValidRows
             \/ r.pc = "checkValidated" /\ pc = "write"
  PROVE  Refines
<1> DEFINE r == worker[w]
           q == [r EXCEPT !.pc = pc]
<1>1. r \in Request /\ Serial(r, rows[r.id])
  BY DEF IInv, SInv
<1>2. /\ q.pc = pc /\ q.op = r.op /\ q.id = r.id /\ q.input = r.input
      /\ q.data = r.data /\ q.entity = r.entity /\ q.loaded = r.loaded
      /\ q.fresh = r.fresh /\ q.previous = r.previous
      /\ q.committed = r.committed /\ q.status = r.status
      /\ Data(q) = Data(r)
  BY <1>1 DEF Request, Data
<1>3. Become(w, q)
  BY DEF Goto
<1> HIDE DEF q
<1>4. pc \in BeforeWrite /\ r.pc \in BeforeWrite
  BY DEF BeforeWrite, Carrying, Late
<1>5. callOf(q) = callOf(r)
  BY <1>2, <1>4, PhaseCalled, CallKept
<1>6. Current(q, rows[q.id])
  BY <1>1, <1>2 DEF Serial, Current, Carrying, Late
<1>7. BodyIn(q)
  BY <1>1, <1>2 DEF Serial, BodyIn, Late, Sent
<1>8. Validated(q)
  BY <1>1, <1>2 DEF Serial, Validated
<1>9. Effective(q)
  BY <1>1, <1>2, <1>4 DEF Serial, Effective, BeforeWrite, Carrying, Late
<1> QED
  BY <1>3, <1>5, <1>6, <1>7, <1>8, <1>9, Stutters DEF Serial

(* A refusal before the write.                                             *)
LEMMA RejectRefines ==
  ASSUME IInv, SInv, NEW w \in Workers, Workers = {w}, NEW status,
         Reject(w, status), LocalStep, worker[w].pc \in BeforeWrite,
         status \in {400, 403, 404, 406, 415, 422, 500}
  PROVE  Refines
<1>1. phaseOf(worker[w]) = "called" /\ status \in Store!Refusals
  BY PhaseCalled DEF Store!Refusals
<1> QED
  BY <1>1, RejectAnswers

LEMMA ProvidersRefine ==
  ASSUME IInv, SInv, NEW w \in Workers, Workers = {w},
         \/ ContentNegotiationProvider(w) \/ ParameterValidatorProvider(w)
         \/ AccessCheckerProvider(w) \/ SecurityParameterProvider(w)
         \/ ValidateProvider(w)
  PROVE  Refines
<1> DEFINE r == worker[w]
<1>1. LocalStep /\ r.pc \in BeforeWrite
  BY DEF ContentNegotiationProvider, ParameterValidatorProvider,
     AccessCheckerProvider, AccessChecker, PostDenormalizeChecker,
     SecurityParameterProvider, ValidateProvider, Handling,
     BeforeWrite, Carrying, Late
<1>2. CASE \E status \in {403, 406, 415, 422} : Reject(w, status)
  BY <1>1, <1>2, RejectRefines
<1>3. CASE ContentNegotiationProvider(w) /\ Goto(w, "parameters")
  BY <1>1, <1>3, MoveRefines DEF ContentNegotiationProvider, Handling
<1>4. CASE ParameterValidatorProvider(w) /\ Goto(w, "read")
  BY <1>1, <1>4, MoveRefines DEF ParameterValidatorProvider, Handling
<1>5. CASE AccessChecker(w, "checkRead", "read", "checkParameter")
             /\ Goto(w, "checkParameter")
  BY <1>1, <1>5, MoveRefines DEF AccessChecker, Handling
<1>6. CASE PostDenormalizeChecker(w) /\ Goto(w, "validate")
  BY <1>1, <1>6, MoveRefines DEF PostDenormalizeChecker, Handling
<1>7. CASE AccessChecker(w, "checkValidated", "postValidate", "write")
             /\ Goto(w, "write")
  BY <1>1, <1>7, MoveRefines DEF AccessChecker, Handling
<1>8. CASE SecurityParameterProvider(w) /\ Goto(w, "deserialize")
  BY <1>1, <1>8, MoveRefines DEF SecurityParameterProvider, AccessChecker, Handling
<1>9. CASE /\ ValidateProvider(w) /\ Goto(w, "checkValidated")
           /\ canValidate(r.op) /\ Data(r) # NoRow => Data(r) \in ValidRows
  <2>1. r.pc = "validate"
    BY <1>9 DEF ValidateProvider, Handling
  <2> QED
    BY <1>1, <1>9, <2>1, MoveRefines
<1>10. CASE ContentNegotiationProvider(w)
  BY <1>2, <1>3, <1>10 DEF ContentNegotiationProvider
<1>11. CASE ParameterValidatorProvider(w)
  BY <1>2, <1>4, <1>11 DEF ParameterValidatorProvider
<1>12. CASE AccessCheckerProvider(w)
  <2>1. CASE Reject(w, 403)
    BY <1>2, <2>1
  <2>2. CASE AccessChecker(w, "checkRead", "read", "checkParameter")
    BY <1>5, <2>1, <2>2 DEF AccessChecker
  <2>3. CASE PostDenormalizeChecker(w)
    BY <1>6, <2>1, <2>3 DEF PostDenormalizeChecker
  <2>4. CASE AccessChecker(w, "checkValidated", "postValidate", "write")
    BY <1>7, <2>1, <2>4 DEF AccessChecker
  <2> QED
    BY <1>12, <2>2, <2>3, <2>4 DEF AccessCheckerProvider
<1>13. CASE SecurityParameterProvider(w)
  BY <1>2, <1>8, <1>13 DEF SecurityParameterProvider, AccessChecker
<1>14. CASE ValidateProvider(w)
  BY <1>2, <1>9, <1>14 DEF ValidateProvider, Op
<1> QED
  BY <1>10, <1>11, <1>12, <1>13, <1>14

LEMMA CallTyped ==
  ASSUME NEW q, q \in Request
  PROVE  callOf(q) \in Store!Call
<1>1. phaseOf(q) \in {"idle", "called", "done", "answered"}
  BY DEF phaseOf
<1>2. kindOf(q.op) \in Store!Kinds
  BY DEF kindOf, Store!Kinds
<1>3. /\ q.id \in Ids /\ q.status \in Nat /\ q.input.body \in Bodies
  BY ConstantsAssumption DEF Request, Input
<1>4. Store!Bodies = Bodies
  BY DEF Store!Bodies, Bodies
<1> QED
  BY <1>1, <1>2, <1>3, <1>4, Zenon DEF callOf, Store!Call

LEMMA StartRefines ==
  ASSUME IInv, SInv, NEW w \in Workers, Workers = {w}, Start(w)
  PROVE  Refines
<1> DEFINE r == worker[w]
           call == [v \in Workers |-> callOf(worker[v])]
<1>1. PICK op \in Operations, id \in Ids, input \in Inputs :
        Become(w, NewRequest(op, id, input))
  BY DEF Start
<1> DEFINE q == NewRequest(op, id, input)
<1>2. q.pc = "negotiate" /\ q.committed = NoRow /\ q \in Request
  BY DEF NewRequest, Request
<1>3. Become(w, q)
  BY <1>1
<1> HIDE DEF q
<1>4. Serial(q, rows[q.id])
  BY <1>2 DEF Serial, Current, BodyIn, Validated, Effective, Carrying, Late,
     BeforeWrite
<1>5. worker'[w] = q
  BY <1>3, OneCall
<1>6. SInv'
  BY <1>4, <1>5 DEF SInv, RowsAreValid, Start
<1>7. phaseOf(r) \in {"idle", "answered"}
  BY DEF Start, phaseOf, wrote
<1>8. phaseOf(q) = "called"
  BY <1>2, PhaseCalled DEF BeforeWrite
<1>9. call' = [v \in Workers |-> callOf(q)]
  BY <1>3, OneCall
<1>10. /\ call[w].phase \in {"idle", "answered"}
       /\ call' \in [Workers -> Store!Call]
       /\ call'[w].phase = "called"
       /\ \A v \in Workers \ {w} : call'[v] = call[v]
  <2>1. callOf(q) \in Store!Call /\ callOf(q).phase = "called"
    BY <1>2, <1>8, CallTyped, CallFields
  <2>2. call[w].phase = phaseOf(r)
    BY CallFields
  <2> HIDE DEF call
  <2> QED
    BY <1>7, <1>9, <2>1, <2>2
<1>11. Store!Receive(w)
  BY <1>10 DEF Store!Receive, Start
<1> QED
  BY <1>6, <1>11 DEF Refines, Store!Next

LEMMA ReadRefines ==
  ASSUME IInv, SInv, NEW w \in Workers, Workers = {w}, ReadProvider(w)
  PROVE  Refines
<1> DEFINE r == worker[w]
           row == rows[r.id]
<1>1. /\ r \in Request /\ r.pc = "read" /\ LocalStep
      /\ r.data = "null" /\ r.previous = NoRow /\ r.committed = NoRow
  BY DEF IInv, WorkersInv, RequestInv, NothingRead, ReadProvider, Handling,
     SInv, Serial, Effective, BeforeWrite
<1>2. CASE Reject(w, 404)
  BY <1>1, <1>2, RejectRefines DEF BeforeWrite
<1>3. ASSUME NEW q, Become(w, q), q.pc = "checkRead", q.op = r.op, q.id = r.id,
             q.input = r.input, q.status = r.status, q.committed = NoRow,
             ~canRead(q.op) => q.previous = NoRow,
             q.previous # NoRow => row = q.previous
      PROVE  Refines
  <2>1. Serial(q, rows[q.id])
    BY <1>3 DEF Serial, Current, BodyIn, Validated, Effective, Late, BeforeWrite
  <2>2. phaseOf(q) = phaseOf(r)
    BY <1>1, <1>3, PhaseCalled DEF BeforeWrite, Carrying
  <2> QED
    BY <1>1, <1>3, <2>1, <2>2, CallKept, Stutters
<1>4. CASE Goto(w, "checkRead")
  <2> DEFINE q == [r EXCEPT !.pc = "checkRead"]
  <2>1. /\ q.pc = "checkRead" /\ q.op = r.op /\ q.id = r.id
        /\ q.input = r.input /\ q.status = r.status
        /\ q.committed = NoRow /\ q.previous = NoRow
    BY <1>1 DEF Request
  <2>2. Become(w, q)
    BY <1>4 DEF Goto
  <2> HIDE DEF q
  <2> QED
    BY <1>3, <2>1, <2>2
<1>5. CASE /\ canRead(r.op)
           /\ Become(w, [r EXCEPT !.pc = "checkRead", !.data = "entity",
                !.entity = row, !.loaded = row, !.previous = row])
  <2> DEFINE q == [r EXCEPT !.pc = "checkRead", !.data = "entity",
                     !.entity = row, !.loaded = row, !.previous = row]
  <2>1. /\ q.pc = "checkRead" /\ q.op = r.op /\ q.id = r.id
        /\ q.input = r.input /\ q.status = r.status
        /\ q.committed = NoRow /\ q.previous = row
    BY <1>1 DEF Request
  <2>2. Become(w, q)
    BY <1>5
  <2> HIDE DEF q
  <2> QED
    BY <1>3, <1>5, <2>1, <2>2
<1> QED
  BY <1>2, <1>4, <1>5 DEF ReadProvider, Op

(* The body is applied to the object that was read, or to a new one.       *)
LEMMA DeserializeRefines ==
  ASSUME IInv, SInv, NEW w \in Workers, Workers = {w}, DeserializeProvider(w)
  PROVE  Refines
<1> DEFINE r == worker[w]
<1>1. /\ RequestInv(r) /\ r \in Request /\ r.pc = "deserialize" /\ LocalStep
      /\ r.pc \in BeforeWrite /\ Serial(r, rows[r.id])
  BY DEF IInv, WorkersInv, SInv, DeserializeProvider, Handling, BeforeWrite,
     Carrying
<1>2. CASE \E status \in {400, 415, 422} : Reject(w, status)
  BY <1>1, <1>2, RejectRefines
<1>3. r.committed = NoRow
  BY <1>1 DEF Serial, Effective
<1>4. /\ r.data \in {"null", "entity"}
      /\ r.data = "null" <=> r.previous = NoRow
      /\ r.data = "entity" => r.entity = r.loaded
  BY <1>1 DEF RequestInv, RequestTyped, JustRead
<1>5. ASSUME NEW q, Become(w, q), q.pc = "checkDenormalized", q.op = r.op,
             q.id = r.id, q.input = r.input, q.status = r.status,
             q.committed = NoRow, q.previous = r.previous,
             BodyIn(q)
      PROVE  Refines
  <2>1. Serial(q, rows[q.id])
    BY <1>1, <1>5 DEF Serial, Current, Validated, Effective, Carrying, Late,
       BeforeWrite
  <2>2. phaseOf(q) = phaseOf(r)
    BY <1>1, <1>5, PhaseCalled DEF BeforeWrite, Carrying, Late
  <2> QED
    BY <1>1, <1>5, <2>1, <2>2, CallKept, Stutters
<1>6. CASE ~canDeserialize(r.op) /\ Goto(w, "checkDenormalized")
  <2> DEFINE q == [r EXCEPT !.pc = "checkDenormalized"]
  <2>1. /\ q.pc = "checkDenormalized" /\ q.op = r.op /\ q.id = r.id
        /\ q.input = r.input /\ q.status = r.status
        /\ q.committed = NoRow /\ q.previous = r.previous
        /\ q.data = r.data /\ q.entity = r.entity /\ q.loaded = r.loaded
    BY <1>1, <1>3 DEF Request
  <2>2. Become(w, q)
    BY <1>6 DEF Goto
  <2> HIDE DEF q
  <2>3. BodyIn(q)
    BY <1>4, <1>6, <2>1 DEF BodyIn
  <2> QED
    BY <1>5, <2>1, <2>2, <2>3
<1>7. CASE /\ canDeserialize(r.op)
           /\ Become(w, [Deserialized(r) EXCEPT !.pc = "checkDenormalized"])
  <2> DEFINE q == [Deserialized(r) EXCEPT !.pc = "checkDenormalized"]
  <2>1. /\ q.pc = "checkDenormalized" /\ q.op = r.op /\ q.id = r.id
        /\ q.input = r.input /\ q.status = r.status
        /\ q.committed = NoRow /\ q.previous = r.previous
        /\ q.loaded = r.loaded
    BY <1>1, <1>3 DEF Deserialized, Request
  <2>2. populates(r) =>
          /\ q.data = "entity" /\ Completes(r.op)
          /\ q.entity = Denormalized(r.loaded, r.input.body)
    BY <1>1, <1>4 DEF Deserialized, Request, populates, Completes
  <2>3. ~populates(r) =>
          /\ q.data = "fresh" /\ q.fresh = Sent(r)
          /\ Completes(r.op) => r.previous = NoRow
    BY <1>1, <1>4 DEF Deserialized, Request, populates, Completes, Sent
  <2>4. Become(w, q)
    BY <1>7
  <2> HIDE DEF q
  <2>5. BodyIn(q)
    BY <1>7, <2>1, <2>2, <2>3 DEF BodyIn, Sent
  <2> QED
    BY <1>5, <2>1, <2>4, <2>5
<1>8. CASE \E status \in {400, 422} : Become(w, Answered(Deserialized(r), status))
  <2>1. PICK status \in {400, 422} : Become(w, Answered(Deserialized(r), status))
    BY <1>8
  <2> DEFINE q == Answered(Deserialized(r), status)
  <2>2. /\ q.pc = "answered" /\ q.op = r.op /\ q.id = r.id
        /\ q.input = r.input /\ q.status = status
    BY <1>1 DEF Answered, Deserialized, Request
  <2>3. Become(w, q)
    BY <2>1
  <2> HIDE DEF q
  <2>4. phaseOf(r) = "called" /\ status \in Store!Refusals
    BY <1>1, PhaseCalled DEF Store!Refusals
  <2> QED
    BY <1>1, <2>2, <2>3, <2>4, Answers
<1> QED
  BY <1>1, <1>2, <1>6, <1>7, <1>8 DEF DeserializeProvider

-----------------------------------------------------------------------------
(* The processors                                                          *)

(* What the kind of an operation tells of it.                              *)
LEMMA KindFacts ==
  ASSUME NEW op \in Operations
  PROVE  LET kind == kindOf(op)
         IN  /\ kind \in Store!Kinds
             /\ kind \in {"create", "replace", "merge", "remove"}
                  => canWrite(op)
             /\ kind \in {"create", "replace", "merge"} => canDeserialize(op)
             /\ kind \in {"replace", "merge", "remove"} => canRead(op)
             /\ kind \in {"create", "replace", "merge"} => canValidate(op)
             /\ kind = "fetch" => op.method = "GET" /\ ~canWrite(op)
             /\ kind = "create" => op.method = "POST" /\ ~canRead(op)
             /\ kind = "replace" => op.method = "PUT" /\ op.standardPut
             /\ kind = "merge" => ~mayBeMissing(op) /\ Completes(op)
             /\ kind = "remove" => op.method = "DELETE"
<1> DEFINE kind == kindOf(op)
<1>1. kind \in Store!Kinds
  BY DEF kindOf, Store!Kinds
<1>2. kind # "custom" => hasDefaults(op)
  BY DEF kindOf
<1>3. /\ kind = "fetch" => op.method = "GET"
      /\ kind = "create" => op.method = "POST" /\ ~op.template
      /\ kind = "replace" => op.method = "PUT" /\ op.template /\ op.standardPut
      /\ kind = "merge" =>
           \/ op.method = "PATCH"
           \/ op.method = "PUT" /\ ~op.standardPut /\ ~op.allowCreate
      /\ kind = "remove" => op.method = "DELETE"
  BY DEF kindOf
<1>4. op.template \/ op.method = "POST"
  BY ConstantsAssumption
<1> HIDE DEF kind
<1>5. kind \in {"create", "replace", "merge"} =>
        hasDefaults(op) /\ op.method \in {"POST", "PUT", "PATCH"}
  BY <1>2, <1>3
<1>6. kind \in {"create", "replace", "merge", "remove"} =>
        hasDefaults(op) /\ op.method \in {"POST", "PUT", "PATCH", "DELETE"}
  BY <1>2, <1>3
<1>7. kind \in {"replace", "merge", "remove"} => hasDefaults(op) /\ op.template
  BY <1>2, <1>3, <1>4
<1>8. kind \in {"create", "replace", "merge", "remove"} => canWrite(op)
  BY <1>6 DEF hasDefaults, canWrite, isMethodSafe
<1>9. kind \in {"create", "replace", "merge"} =>
        canDeserialize(op) /\ canValidate(op)
  BY <1>5 DEF hasDefaults, canDeserialize, canValidate
<1>10. kind \in {"replace", "merge", "remove"} => canRead(op)
  BY <1>7 DEF hasDefaults, canRead
<1>11. kind = "fetch" => op.method = "GET" /\ ~canWrite(op)
  BY <1>2, <1>3 DEF hasDefaults, canWrite, isMethodSafe
<1>12. kind = "create" => op.method = "POST" /\ ~canRead(op)
  BY <1>2, <1>3 DEF hasDefaults, canRead, isMethodSafe
<1>13. kind = "merge" => ~mayBeMissing(op) /\ Completes(op)
  BY <1>3 DEF mayBeMissing, Completes
<1> QED
  BY <1>1, <1>3, <1>8, <1>9, <1>10, <1>11, <1>12, <1>13 DEF kind

(* What a request is when it comes to the write.                           *)
LEMMA AtWrite ==
  ASSUME IInv, SInv, NEW w \in Workers, worker[w].pc = "write"
  PROVE  LET r == worker[w]
         IN  /\ r \in Request /\ RequestInv(r) /\ Serial(r, rows[r.id])
             /\ phaseOf(r) = "called" /\ r.committed = NoRow
             /\ r.data = "entity" =>
                  /\ r.previous # NoRow /\ r.entity \in Row
             /\ r.data = "fresh" => r.fresh \in Row
             /\ r.previous # NoRow =>
                  /\ r.data # "null" /\ rows[r.id] = r.previous
                  /\ r.loaded = r.previous /\ r.previous \in Row
                  /\ r.id \in taken
             /\ kindOf(r.op) \in {"create", "replace", "merge"}
                  => r.data # "null"
             /\ kindOf(r.op) \in {"merge", "remove"} => r.previous # NoRow
             /\ kindOf(r.op) = "create" => r.data = "fresh"
<1> DEFINE r == worker[w]
<1>1. /\ r \in Request /\ RequestInv(r) /\ Serial(r, rows[r.id])
  BY DEF IInv, WorkersInv, SInv
<1>2. phaseOf(r) = "called" /\ r.committed = NoRow
  BY <1>1, PhaseCalled DEF Serial, Effective, BeforeWrite, Carrying, Late
<1>3. /\ r.data = "entity" => r.previous # NoRow /\ r.entity \in Row
      /\ r.data = "fresh" => r.fresh \in Row
  BY <1>1 DEF RequestInv, RequestTyped, BodyApplied, Request
<1>4. r.previous # NoRow =>
        /\ r.data # "null" /\ rows[r.id] = r.previous
        /\ r.loaded = r.previous /\ r.previous \in Row
        /\ r.id \in taken
  BY <1>1 DEF RequestInv, BodyApplied, Serial, Current, BodyIn, Carrying, Late,
     Request, SInv
<1>5. r.op \in Operations
  BY <1>1 DEF Request
<1>6. kindOf(r.op) \in {"create", "replace", "merge"} => r.data # "null"
  BY <1>1, <1>5, KindFacts DEF RequestInv, BodyApplied
<1>7. kindOf(r.op) \in {"merge", "remove"} => r.previous # NoRow
  <2>1. kindOf(r.op) \in {"merge", "remove"} =>
          canRead(r.op) /\ ~mayBeMissing(r.op)
    BY <1>5, KindFacts DEF mayBeMissing
  <2> QED
    BY <1>1, <2>1 DEF RequestInv, BodyApplied
<1>8. kindOf(r.op) = "create" => r.data = "fresh"
  <2>1. kindOf(r.op) = "create" => r.previous = NoRow
    BY <1>1, <1>5, KindFacts DEF Serial, Current, Carrying, Late
  <2> QED
    BY <1>1, <1>3, <1>6, <2>1 DEF Request
<1> QED
  BY <1>1, <1>2, <1>3, <1>4, <1>6, <1>7, <1>8

(* A step that takes effect, outside of the promise of any method.         *)
LEMMA CustomEffect ==
  ASSUME NEW w \in Workers, kindOf(worker[w].op) = "custom",
         NEW i \in Ids, NEW row \in Row \cup {NoRow}, Store!Effect(w, i, row),
         SInv'
  PROVE  Refines
<1>1. [v \in Workers |-> callOf(worker[v])][w].kind = "custom"
  BY DEF callOf
<1>2. Store!Custom(w)
  BY <1>1 DEF Store!Custom, Store!Row, Row
<1> QED
  BY <1>2 DEF Refines, Store!Next

(* Nothing to write: an operation with its defaults that writes carries    *)
(* an object. The DELETE of nothing, by another, has taken effect.         *)
LEMMA WriteSkippedRefines ==
  ASSUME IInv, SInv, NEW w \in Workers, Workers = {w}, WriteSkipped(w)
  PROVE  Refines
<1> DEFINE r == worker[w]
           q == [r EXCEPT !.pc = "serialize"]
<1>1. /\ r.pc = "write" /\ LocalStep
      /\ ~canWrite(r.op) \/ r.data = "null"
  BY DEF WriteSkipped, Handling, Op
<1>2. r \in Request /\ phaseOf(r) = "called" /\ r.committed = NoRow
  BY <1>1, AtWrite
<1>3. /\ q.pc = "serialize" /\ q.op = r.op /\ q.id = r.id /\ q.input = r.input
      /\ q.status = r.status /\ q.data = r.data /\ q.committed = NoRow
  BY <1>2 DEF Request
<1>4. Become(w, q)
  BY DEF WriteSkipped, Goto
<1> HIDE DEF q
<1>5. kindOf(r.op) \in {"fetch", "custom"}
  <2>1. kindOf(r.op) \in {"create", "replace", "merge", "remove"}
          => r.data # "null"
    BY <1>1, AtWrite
  <2>2. /\ kindOf(r.op) \in Store!Kinds
        /\ kindOf(r.op) \in {"create", "replace", "merge", "remove"}
             => canWrite(r.op)
    BY <1>2, KindFacts DEF Request
  <2> QED
    BY <1>1, <2>1, <2>2 DEF Store!Kinds
<1>6. Serial(q, rows[q.id])
  BY <1>3, <1>5 DEF Serial, Current, BodyIn, Validated, Effective, Carrying,
     Late, BeforeWrite
<1>7. CASE phaseOf(q) = "called"
  <2>1. callOf(q) = callOf(r)
    BY <1>2, <1>3, <1>7, CallKept
  <2> QED
    BY <1>1, <1>4, <1>6, <2>1, Stutters
<1>8. CASE phaseOf(q) # "called"
  <2>1. phaseOf(q) = "done" /\ r.op.method = "DELETE"
    BY <1>3, <1>8 DEF phaseOf, wrote
  <2>2. kindOf(r.op) = "custom"
    BY <1>5, <2>1 DEF kindOf
  <2>3. /\ r.id \in Ids /\ rows \in [Ids -> Row \cup {NoRow}]
        /\ rows[r.id] # NoRow => r.id \in taken
    BY <1>2 DEF IInv, StoreInv, SInv, Request
  <2> DEFINE row == rows[r.id]
  <2>4. /\ rows' = [rows EXCEPT ![q.id] = row]
        /\ taken' = IF row = NoRow THEN taken ELSE taken \cup {q.id}
    BY <1>1, <1>3, <2>3 DEF LocalStep
  <2>5. Store!Effect(w, q.id, row)
    <3> HIDE DEF row
    <3> QED BY <1>2, <1>3, <1>4, <2>1, <2>4, TakesEffect
  <2>6. SInv'
    BY <1>1, <1>4, <1>6, SerialLocal
  <2> QED
    BY <1>3, <2>2, <2>3, <2>5, <2>6, CustomEffect
<1> QED
  BY <1>7, <1>8

(* A flush: the request has taken effect, on a row that is valid or exempt. *)
LEMMA CommittedTakesEffect ==
  ASSUME IInv, SInv, NEW w \in Workers, Workers = {w}, worker[w].pc = "write",
         NEW p, p \in Request, p.op = worker[w].op,
         p.input = worker[w].input, p.status = worker[w].status,
         NEW i \in Ids, NEW row \in Row, Committed(w, p, i, row),
         forgoesValidation(p.op) \/ row \in ValidRows,
         Replaces(p) => row = Sent(p)
  PROVE  Store!Effect(w, i, row) /\ SInv'
<1> DEFINE q == [p EXCEPT !.pc = "refresh", !.id = i, !.committed = row,
                   !.inserted = p.data = "fresh"]
<1>1. /\ q.pc = "refresh" /\ q.id = i /\ q.committed = row /\ q.op = p.op
      /\ q.input = p.input /\ q.status = p.status
  BY DEF Request
<1>2. Become(w, q) /\ row # NoRow
  BY ConstantsAssumption DEF Committed
<1> HIDE DEF q
<1>3. /\ phaseOf(worker[w]) = "called" /\ phaseOf(q) = "done"
  BY <1>1, AtWrite DEF phaseOf, wrote
<1>4. /\ rows' = [rows EXCEPT ![q.id] = row]
      /\ taken' = IF row = NoRow THEN taken ELSE taken \cup {q.id}
  BY <1>1, <1>2 DEF Committed
<1>5. Store!Effect(w, i, row)
  BY <1>1, <1>2, <1>3, <1>4, TakesEffect
<1>6. Serial(q, rows'[q.id])
  BY <1>1, <1>2 DEF Serial, Current, BodyIn, Validated, Effective, Carrying,
     Late, BeforeWrite, Replaces, Sent
<1>7. worker'[w] = q
  BY <1>2, OneCall
<1>8. rows \in [Ids -> Row \cup {NoRow}]
  BY DEF IInv, StoreInv
<1>9. RowsAreValid' /\ \A j \in Ids : rows'[j] # NoRow => j \in taken'
  BY <1>8 DEF SInv, RowsAreValid, Committed
<1> QED
  BY <1>5, <1>6, <1>7, <1>9 DEF SInv

(* Everything the flush writes has been validated, unless the operation    *)
(* says not to.                                                            *)
LEMMA PersistsValidated ==
  ASSUME NEW op \in Operations, op.method # "DELETE", canWrite(op)
  PROVE  forgoesValidation(op) \/ canValidate(op)
<1>1. op.validate \in Flag
  BY ConstantsAssumption DEF Operation
<1> QED
  BY <1>1 DEF Flag, forgoesValidation, canValidate, isMethodSafe

LEMMA CallAtWrite ==
  ASSUME NEW w \in Workers
  PROVE  LET c == [v \in Workers |-> callOf(worker[v])][w]
         IN  /\ c.kind = kindOf(worker[w].op) /\ c.id = worker[w].id
             /\ c.body = worker[w].input.body
             /\ Store!Created(c.body) = Sent(worker[w])
  BY DEF callOf, Store!Created, Sent, Denormalized

(* The UPDATE leaves the row as the entity is: nobody has changed it since *)
(* it was read.                                                            *)
LEMMA UpdateRefines ==
  ASSUME IInv, SInv, NEW w \in Workers, Workers = {w}, PersistUpdate(w)
  PROVE  Refines
<1> DEFINE r == worker[w]
           p == Replaced(r)
           replacing == /\ r.op.method = "PUT" /\ r.op.standardPut
                        /\ r.data = "fresh" /\ r.previous # NoRow
           call == [v \in Workers |-> callOf(worker[v])]
<1>1. /\ r.pc = "write" /\ canWrite(r.op) /\ r.op.method # "DELETE"
      /\ p.data = "entity" /\ Committed(w, p, p.id, Updated(rows[p.id], p))
  BY DEF PersistUpdate, persists, Handling, Op
<1>2. /\ r \in Request /\ RequestInv(r) /\ Serial(r, rows[r.id])
      /\ r.op \in Operations /\ r.id \in Ids
  BY <1>1, AtWrite DEF Request
<1>3. /\ RequestTyped(p) /\ p.op = r.op /\ p.id = r.id
      /\ p.loaded = r.loaded /\ p.input = r.input
  BY <1>1, <1>2, ReplacedInv
<1>4. /\ p.status = r.status
      /\ replacing => p.entity = r.fresh
      /\ ~replacing => p = r
  BY <1>2 DEF Replaced, Request
<1>5. /\ r.previous # NoRow /\ rows[r.id] = r.previous
      /\ r.loaded = r.previous /\ r.previous \in Row
  BY <1>1, <1>4, AtWrite
<1>6. p.entity \in Row /\ Data(r) = p.entity
  <2>1. replacing => r.fresh \in Row /\ Data(r) = r.fresh
    BY <1>1, AtWrite DEF Data
  <2>2. ~replacing => r.entity \in Row /\ Data(r) = r.entity
    BY <1>1, <1>4, AtWrite DEF Data
  <2> HIDE DEF p
  <2> QED
    BY <1>4, <2>1, <2>2
<1> HIDE DEF p
<1>7. Updated(rows[r.id], p) = p.entity
  <2>1. rows[r.id] # NoRow /\ rows[r.id] = p.loaded /\ rows[r.id] \in Row
    BY <1>3, <1>5
  <2>2. \A f \in Fields :
          (IF f \in changeSet(p) THEN p.entity[f] ELSE rows[r.id][f])
             = p.entity[f]
    BY <2>1 DEF changeSet
  <2>3. Updated(rows[r.id], p) = [f \in Fields |-> p.entity[f]]
    BY <2>1, <2>2 DEF Updated
  <2> QED
    BY <1>6, <2>3 DEF Row
<1>8. forgoesValidation(r.op) \/ p.entity \in ValidRows
  <2>1. p.entity # NoRow
    BY <1>6, ConstantsAssumption
  <2>2. canValidate(r.op) => p.entity \in ValidRows
    BY <1>1, <1>2, <1>6, <2>1 DEF Serial, Validated
  <2> QED
    BY <1>1, <1>2, <2>2, PersistsValidated
<1>9. Store!Effect(w, r.id, p.entity) /\ SInv'
  <2>1. Replaces(r) => p.entity = Sent(r)
    BY <1>1, <1>2, <1>4 DEF Serial, BodyIn, Late, Replaces, Completes
  <2>2. Replaces(p) => p.entity = Sent(p)
    BY <1>3, <2>1 DEF Replaces, Sent
  <2> QED
    BY <1>1, <1>2, <1>3, <1>4, <1>6, <1>7, <1>8, <2>2, CommittedTakesEffect
       DEF RequestTyped
<1>10. /\ call[w].kind = kindOf(r.op) /\ call[w].id = r.id
       /\ call[w].body = r.input.body
       /\ Store!Created(call[w].body) = Sent(r)
  BY CallAtWrite
<1>11. CASE kindOf(r.op) = "custom"
  BY <1>2, <1>6, <1>9, <1>11, CustomEffect
<1>12. CASE kindOf(r.op) = "replace"
  <2>1. /\ r.op.method = "PUT" /\ r.op.standardPut /\ ~Completes(r.op)
        /\ canDeserialize(r.op) /\ canValidate(r.op)
    BY <1>2, <1>12, KindFacts DEF Completes
  <2>2. p.entity = Sent(r)
    BY <1>1, <1>2, <1>4, <2>1 DEF Serial, BodyIn, Late
  <2>3. p.entity \in ValidRows
    BY <1>1, <1>2, <1>6, <2>1, ConstantsAssumption DEF Serial, Validated
  <2> HIDE DEF call
  <2>4. Store!Effect(w, call[w].id, Store!Created(call[w].body))
    BY <1>9, <1>10, <2>2
  <2>5. Store!Replace(w)
    BY <1>10, <1>12, <2>2, <2>3, <2>4 DEF Store!Replace, call
  <2> QED
    BY <1>9, <2>5 DEF Refines, Store!Next
<1>13. CASE kindOf(r.op) = "merge"
  <2>1. /\ Completes(r.op) /\ canDeserialize(r.op) /\ canValidate(r.op)
    BY <1>2, <1>13, KindFacts
  <2>2. r.data = "entity" /\ p = r
    BY <1>1, <1>2, <1>4, <1>5, <2>1 DEF Serial, BodyIn, Late
  <2>3. p.entity = Store!Merged(rows[call[w].id], call[w].body)
    BY <1>1, <1>2, <1>5, <1>10, <2>1, <2>2
       DEF Serial, BodyIn, Late, Denormalized, Store!Merged
  <2>4. p.entity \in ValidRows
    BY <1>1, <1>2, <1>6, <2>1, ConstantsAssumption DEF Serial, Validated
  <2>5. rows[call[w].id] # NoRow
    BY <1>5, <1>10
  <2>6. Store!Effect(w, call[w].id, p.entity)
    BY <1>9, <1>10
  <2>7. Store!Merge(w)
    BY <1>10, <1>13, <2>3, <2>4, <2>5, <2>6 DEF Store!Merge
  <2> QED
    BY <1>9, <2>7 DEF Refines, Store!Next
<1>14. kindOf(r.op) \notin {"create", "fetch", "remove"}
  <2>1. kindOf(r.op) # "create"
    BY <1>1, <1>2, <1>4, AtWrite, KindFacts
  <2> QED
    BY <1>1, <1>2, <2>1, KindFacts
<1> QED
  BY <1>2, <1>11, <1>12, <1>13, <1>14, KindFacts DEF Store!Kinds

(* The INSERT of the object that was sent.                                 *)
LEMMA InsertRefines ==
  ASSUME IInv, SInv, NEW w \in Workers, Workers = {w}, PersistInsert(w)
  PROVE  Refines
<1> DEFINE r == worker[w]
           p == Replaced(r)
           target == IF r.op.method = "PUT" /\ r.op.standardPut THEN {r.id}
                     ELSE Ids \ taken
           call == [v \in Workers |-> callOf(worker[v])]
<1>1. /\ r.pc = "write" /\ canWrite(r.op) /\ r.op.method # "DELETE"
      /\ p.data = "fresh"
  BY DEF PersistInsert, persists, Handling, Op
<1>2. /\ r \in Request /\ RequestInv(r) /\ Serial(r, rows[r.id])
      /\ r.op \in Operations /\ r.id \in Ids /\ phaseOf(r) = "called"
  BY <1>1, AtWrite DEF Request
<1>3. p = r /\ r.data = "fresh"
  BY <1>1, <1>2 DEF Replaced, Request
<1>4. r.fresh \in Row /\ Data(r) = r.fresh
  BY <1>1, <1>3, AtWrite DEF Data
<1>5. PICK i \in target : \/ rows[i] = NoRow /\ Committed(w, r, i, r.fresh)
                          \/ rows[i] # NoRow /\ Reject(w, 500) /\ LocalStep
  BY <1>2, <1>3 DEF PersistInsert
<1>6. CASE Reject(w, 500) /\ LocalStep
  <2>1. 500 \in Store!Refusals
    BY DEF Store!Refusals
  <2> QED
    BY <1>2, <1>6, <2>1, RejectAnswers
<1>7. CASE rows[i] = NoRow /\ Committed(w, r, i, r.fresh)
  <2>1. i \in Ids
    BY <1>2
  <2>2. canValidate(r.op) => r.fresh \in ValidRows
    BY <1>1, <1>2, <1>4, ConstantsAssumption DEF Serial, Validated
  <2>3. Store!Effect(w, i, r.fresh) /\ SInv'
    <3>1. Replaces(r) => r.fresh = Sent(r)
      BY <1>1, <1>2, <1>3 DEF Serial, BodyIn, Late, Replaces
    <3> QED
      BY <1>1, <1>2, <1>4, <1>7, <2>1, <2>2, <3>1, PersistsValidated,
         CommittedTakesEffect
  <2>4. /\ call[w].kind = kindOf(r.op) /\ call[w].id = r.id
        /\ Store!Created(call[w].body) = Sent(r)
    BY CallAtWrite
  <2>5. canDeserialize(r.op) => r.fresh = Sent(r)
    BY <1>1, <1>2, <1>3 DEF Serial, BodyIn, Late
  <2>6. CASE kindOf(r.op) = "custom"
    BY <1>4, <2>1, <2>3, <2>6, CustomEffect
  <2>7. CASE kindOf(r.op) \in {"create", "replace"}
    <3>1. /\ Store!Created(call[w].body) = r.fresh
          /\ Store!Created(call[w].body) \in ValidRows
      BY <1>2, <2>2, <2>4, <2>5, <2>7, KindFacts
    <3>2. CASE kindOf(r.op) = "create"
      <4>1. i \in Ids \ taken
        BY <1>2, <3>2, KindFacts
      <4>2. Store!Create(w)
        BY <2>3, <2>4, <3>1, <3>2, <4>1 DEF Store!Create
      <4> QED
        BY <2>3, <4>2 DEF Refines, Store!Next
    <3>3. CASE kindOf(r.op) = "replace"
      <4>1. i = call[w].id
        BY <1>2, <2>4, <3>3, KindFacts
      <4>2. Store!Replace(w)
        BY <2>3, <2>4, <3>1, <3>3, <4>1 DEF Store!Replace
      <4> QED
        BY <2>3, <4>2 DEF Refines, Store!Next
    <3> QED
      BY <2>7, <3>2, <3>3
  <2>8. kindOf(r.op) \notin {"merge", "fetch", "remove"}
    <3>1. kindOf(r.op) # "merge"
      <4>1. kindOf(r.op) = "merge" => r.previous # NoRow /\ Completes(r.op)
        BY <1>1, <1>2, AtWrite, KindFacts
      <4> QED
        BY <1>1, <1>2, <1>3, <4>1 DEF Serial, BodyIn, Late
    <3> QED
      BY <1>1, <1>2, <3>1, KindFacts
  <2> QED
    BY <1>2, <2>6, <2>7, <2>8, KindFacts DEF Store!Kinds
<1> QED
  BY <1>5, <1>6, <1>7

(* The object answered is the row that was written.                        *)
LEMMA RefreshRefines ==
  ASSUME IInv, SInv, NEW w \in Workers, Workers = {w}, Refresh(w)
  PROVE  Refines
<1> DEFINE r == worker[w]
           reread(object) == IF rows[r.id] = NoRow THEN object ELSE rows[r.id]
           qe == [r EXCEPT !.pc = "serialize", !.entity = reread(@)]
           qf == [r EXCEPT !.pc = "serialize", !.fresh = reread(@)]
<1>1. r \in Request /\ r.pc = "refresh" /\ LocalStep /\ r.committed # NoRow
  BY DEF IInv, SInv, Serial, Effective, Refresh, Handling
<1>2. PICK q \in {qe, qf} : Become(w, q)
  BY DEF Refresh
<1>3. /\ q.pc = "serialize" /\ q.op = r.op /\ q.id = r.id /\ q.input = r.input
      /\ q.status = r.status /\ q.committed # NoRow
  BY <1>1, <1>2 DEF Request
<1> HIDE DEF qe, qf
<1>4. Serial(q, rows[q.id])
  BY <1>3 DEF Serial, Current, BodyIn, Validated, Effective, Carrying, Late,
     BeforeWrite, wrote
<1>5. phaseOf(q) = "done" /\ phaseOf(r) = "done"
  BY <1>1, <1>3 DEF phaseOf, wrote
<1> QED
  BY <1>1, <1>2, <1>3, <1>4, <1>5, CallKept, Stutters

(* The DELETE of the row that was read; of an object that was not read, by *)
(* an operation away from its defaults, it changes nothing.                *)
LEMMA RemoveRefines ==
  ASSUME IInv, SInv, NEW w \in Workers, Workers = {w}, Remove(w)
  PROVE  Refines
<1> DEFINE r == worker[w]
           q == [r EXCEPT !.pc = "serialize", !.data = "null"]
           row == IF r.data = "entity" THEN NoRow ELSE rows[r.id]
           call == [v \in Workers |-> callOf(worker[v])]
<1>1. /\ r.pc = "write" /\ canWrite(r.op) /\ r.op.method = "DELETE"
      /\ r.data # "null" /\ taken' = taken /\ exempt' = exempt
      /\ Become(w, q)
  BY DEF Remove, Handling
<1>2. /\ r \in Request /\ RequestInv(r) /\ Serial(r, rows[r.id])
      /\ r.op \in Operations /\ r.id \in Ids /\ phaseOf(r) = "called"
      /\ rows \in [Ids -> Row \cup {NoRow}]
  BY <1>1, AtWrite DEF Request, IInv, StoreInv
<1>3. /\ q.pc = "serialize" /\ q.op = r.op /\ q.id = r.id /\ q.input = r.input
      /\ q.status = r.status /\ q.data = "null"
  BY <1>2 DEF Request
<1> HIDE DEF q
<1>4. wrote(q) /\ phaseOf(q) = "done"
  BY <1>1, <1>3 DEF phaseOf, wrote
<1>5. rows' = [rows EXCEPT ![q.id] = row]
  BY <1>2, <1>3 DEF Remove
<1>6. row = NoRow \/ (row = rows[r.id] /\ r.id \in taken)
  BY <1>2 DEF SInv
<1>7. taken' = IF row = NoRow THEN taken ELSE taken \cup {q.id}
  BY <1>1, <1>3, <1>6
<1>8. Store!Effect(w, q.id, row)
  <2> HIDE DEF row
  <2> QED BY <1>1, <1>2, <1>3, <1>4, <1>5, <1>7, TakesEffect
<1>9. SInv'
  <2>1. worker'[w] = q
    BY <1>1, OneCall
  <2>2. Serial(q, rows'[q.id])
    BY <1>3, <1>4 DEF Serial, Current, BodyIn, Validated, Effective, Carrying,
       Late, BeforeWrite
  <2>3. \A j \in Ids : rows'[j] = rows[j] \/ rows'[j] = NoRow
    BY <1>2, <1>3, <1>5
  <2> QED
    BY <1>1, <2>1, <2>2, <2>3 DEF SInv, RowsAreValid
<1>10. call[w].kind = kindOf(r.op) /\ call[w].id = r.id
  BY CallAtWrite
<1>11. CASE kindOf(r.op) = "custom"
  <2>1. row \in Row \cup {NoRow}
    BY <1>2
  <2> HIDE DEF row
  <2> QED BY <1>2, <1>3, <1>8, <1>9, <1>11, <2>1, CustomEffect
<1>12. CASE kindOf(r.op) = "remove"
  <2>1. rows[r.id] # NoRow /\ r.data = "entity"
    <3>1. r.previous # NoRow /\ rows[r.id] # NoRow
      BY <1>1, <1>12, AtWrite
    <3>2. ~canDeserialize(r.op)
      BY <1>12 DEF kindOf, hasDefaults, canDeserialize
    <3> QED
      BY <1>1, <1>2, <3>1, <3>2 DEF Serial, BodyIn, Late, Request
  <2>2. Store!Remove(w)
    BY <1>3, <1>8, <1>10, <1>12, <2>1 DEF Store!Remove
  <2> QED
    BY <1>9, <2>2 DEF Refines, Store!Next
<1>13. kindOf(r.op) \in {"custom", "remove"}
  BY <1>1, <1>2, KindFacts DEF kindOf
<1> QED
  BY <1>11, <1>12, <1>13

(* The serialization may fail, before the effect or after it.              *)
LEMMA SerializeRefines ==
  ASSUME IInv, SInv, NEW w \in Workers, Workers = {w}, SerializeProcessor(w)
  PROVE  Refines
<1> DEFINE r == worker[w]
           q == [r EXCEPT !.pc = "respond"]
<1>1. /\ r \in Request /\ r.pc = "serialize" /\ LocalStep
      /\ Serial(r, rows[r.id])
  BY DEF IInv, SInv, SerializeProcessor, Handling
<1>2. phaseOf(r) \in {"called", "done"}
  BY <1>1 DEF phaseOf
<1>3. CASE \E status \in {400, 500} : Reject(w, status)
  BY <1>1, <1>2, <1>3, RejectAnswers DEF Store!Refusals, Store!OutputFailures
<1>4. CASE Goto(w, "respond")
  <2>1. /\ q.pc = "respond" /\ q.op = r.op /\ q.id = r.id /\ q.input = r.input
        /\ q.status = r.status /\ q.data = r.data /\ q.committed = r.committed
    BY <1>1 DEF Request
  <2>2. Become(w, q)
    BY <1>4 DEF Goto
  <2> HIDE DEF q
  <2>3. wrote(q) <=> wrote(r)
    BY <1>1, <2>1 DEF wrote
  <2>4. phaseOf(q) = phaseOf(r)
    BY <1>1, <2>1, <2>3 DEF phaseOf
  <2>5. Serial(q, rows[q.id])
    BY <1>1, <2>1, <2>3 DEF Serial, Current, BodyIn, Validated, Effective,
       Carrying, Late, BeforeWrite
  <2> QED
    BY <1>1, <2>1, <2>2, <2>4, <2>5, CallKept, Stutters
<1> QED
  BY <1>3, <1>4 DEF SerializeProcessor

(* The status of a success is one the method promises.                     *)
LEMMA StatusOfKind ==
  ASSUME NEW r, r.op \in Operations
  PROVE  responseStatus(r) \in Store!successOf(kindOf(r.op))
<1> DEFINE kind == kindOf(r.op)
<1>1. /\ kind \in Store!Kinds
      /\ kind = "fetch" => r.op.method = "GET"
      /\ kind = "create" => r.op.method = "POST"
      /\ kind = "replace" => r.op.method = "PUT"
      /\ kind = "remove" => r.op.method = "DELETE"
  BY KindFacts
<1>2. kind = "merge" =>
        r.op.method = "PATCH" \/ (r.op.method = "PUT" /\ ~r.op.allowCreate)
  BY DEF kindOf
<1> HIDE DEF kind
<1> QED
  BY <1>1, <1>2 DEF responseStatus, Store!successOf, Store!Kinds, kind

(* An answer of success is given to who has been served.                   *)
LEMMA RespondRefines ==
  ASSUME IInv, SInv, NEW w \in Workers, Workers = {w}, RespondProcessor(w)
  PROVE  Refines
<1> DEFINE r == worker[w]
           status == responseStatus(r)
           q == Answered(r, status)
<1>1. /\ r \in Request /\ r.op \in Operations /\ r.pc = "respond" /\ LocalStep
      /\ Serial(r, rows[r.id])
  BY DEF IInv, SInv, RespondProcessor, Handling, Request
<1>2. phaseOf(r) \in {"called", "done"}
  BY <1>1 DEF phaseOf
<1>3. CASE Reject(w, 500)
  BY <1>1, <1>2, <1>3, RejectAnswers DEF Store!Refusals, Store!OutputFailures
<1>4. CASE Become(w, q)
  <2>1. /\ q.pc = "answered" /\ q.op = r.op /\ q.id = r.id
        /\ q.input = r.input /\ q.status = status
    BY <1>1 DEF Answered, Request
  <2>2. status \in Store!successOf(kindOf(r.op))
    BY <1>1, StatusOfKind
  <2>3. phaseOf(r) = "done" \/ kindOf(r.op) \in {"fetch", "custom"}
    BY <1>1 DEF Serial, Effective, phaseOf
  <2> HIDE DEF q, status
  <2> QED
    BY <1>1, <1>2, <1>4, <2>1, <2>2, <2>3, Answers
<1> QED
  BY <1>3, <1>4 DEF RespondProcessor

LEMMA NextRefines ==
  ASSUME IInv, SInv, [Next]_vars, NEW w, Workers = {w}
  PROVE  Refines
<1>1. CASE UNCHANGED vars
  BY <1>1 DEF vars, Refines, Store!vars, SInv, RowsAreValid
<1>2. CASE Next
  <2>1. \/ Start(w) \/ ContentNegotiationProvider(w)
        \/ ParameterValidatorProvider(w) \/ ReadProvider(w)
        \/ AccessCheckerProvider(w) \/ SecurityParameterProvider(w)
        \/ DeserializeProvider(w) \/ ValidateProvider(w)
        \/ WriteSkipped(w) \/ PersistUpdate(w) \/ PersistInsert(w)
        \/ Refresh(w) \/ Remove(w)
        \/ SerializeProcessor(w) \/ RespondProcessor(w)
    BY <1>2 DEF Next
  <2> QED
    BY <2>1, StartRefines, ProvidersRefine, ReadRefines, DeserializeRefines,
       WriteSkippedRefines, UpdateRefines, InsertRefines, RefreshRefines,
       RemoveRefines, SerializeRefines, RespondRefines
<1> QED
  BY <1>1, <1>2

LEMMA InitRefines == Init => SInv /\ Store!Init
<1> SUFFICES ASSUME Init PROVE SInv /\ Store!Init
  OBVIOUS
<1> DEFINE r == [NewRequest(AnyOperation, AnyId, AnyInput) EXCEPT !.pc = "idle"]
<1>1. /\ worker = [v \in Workers |-> r] /\ IInv
  BY InitInv DEF Init
<1>2. r.pc = "idle"
  BY DEF NewRequest
<1> HIDE DEF r
<1>3. \A v \in Workers : Serial(worker[v], rows[worker[v].id])
  BY <1>1, <1>2 DEF Serial, Current, BodyIn, Validated, Effective, Carrying,
     Late, BeforeWrite
<1>4. SInv
  BY <1>3 DEF SInv, Init, RowsAreValid
<1>5. ASSUME NEW v \in Workers
      PROVE  callOf(worker[v]) \in Store!Call /\ callOf(worker[v]).phase = "idle"
  <2>1. worker[v] \in Request /\ phaseOf(worker[v]) = "idle"
    BY <1>1, <1>2 DEF IInv, phaseOf, wrote
  <2> QED
    BY <2>1, CallTyped, CallFields
<1>6. Store!Init
  BY <1>5 DEF Init, Store!Init
<1> QED
  BY <1>4, <1>6

-----------------------------------------------------------------------------
(* Theorems                                                                *)

LEMMA AlwaysSerial ==
  ASSUME NEW w, Workers = {w}
  PROVE  Spec => []SInv
<1>1. IInv /\ SInv /\ [Next]_vars => SInv'
  BY NextRefines DEF Refines
<1> QED
  BY <1>1, InitRefines, AlwaysInv, PTL DEF Spec

(* For every table, every mix of flags and every input: as long as the     *)
(* requests follow one another, what a row holds was accepted by the       *)
(* validator, or its last writer was configured without it.                *)
THEOREM ValidWhenSerial ==
  ASSUME NEW w, Workers = {w}
  PROVE  Spec => []RowsAreValid
<1>1. SInv => RowsAreValid
  BY DEF SInv
<1> QED
  BY <1>1, AlwaysSerial, PTL

(* For every table, every mix of flags and every input: as long as the     *)
(* requests follow one another, the row a standard PUT leaves is the       *)
(* representation its client sent, whether it created or replaced it.      *)
THEOREM PutReplacesWhenSerial ==
  ASSUME NEW w, Workers = {w}
  PROVE  Spec => []PutReplaces
<1>1. SInv => PutReplaces
  BY DEF SInv, Serial, Effective, Replaces, Sent, PutReplaces
<1> QED
  BY <1>1, AlwaysSerial, PTL

(* For every table, every mix of flags and every input: the dozen steps of *)
(* a request are one step of RestStore, and the others change nothing that *)
(* its client can see.                                                     *)
THEOREM StoreImplemented ==
  ASSUME NEW w, Workers = {w}
  PROVE  Spec => ImplementsStore
<1>1. IInv /\ SInv /\ [Next]_vars => [Store!Next]_(Store!vars)
  BY NextRefines DEF Refines
<1>2. Spec => []SInv
  BY AlwaysSerial
<1> QED
  BY <1>1, <1>2, InitRefines, AlwaysInv, PTL
     DEF Spec, ImplementsStore, Store!Spec
=============================================================================

------------------------- MODULE StatePipeline_proofs -------------------------
(***************************************************************************)
(* What holds of a request however the requests of the other workers are   *)
(* interleaved with it. Nothing relates the row a request has read and the *)
(* row it writes: the proofs rest on what the worker's entity manager      *)
(* holds, its snapshot, the entity and the clone of the previous data.     *)
(***************************************************************************)
EXTENDS StatePipeline, TLAPS

(* Before the item is read the request carries nothing.                    *)
NothingRead(r) ==
  r.pc \in {"negotiate", "parameters", "read"} =>
    /\ r.data = "null" /\ r.previous = NoRow /\ r.inserted = FALSE

(* What is read is the snapshot, the entity and the previous data.         *)
JustRead(r) ==
  r.pc \in {"checkRead", "checkParameter", "deserialize"} =>
    /\ r.data \in {"null", "entity"} /\ r.inserted = FALSE
    /\ r.data = "entity" =>
         r.entity # NoRow /\ r.entity = r.loaded /\ r.previous = r.loaded
    /\ r.data = "null" => r.previous = NoRow
    /\ r.data = "null" /\ canRead(r.op) => mayBeMissing(r.op)

(* The body only dirties what it names, and never the previous data.       *)
BodyApplied(r) ==
  r.pc \in {"checkDenormalized", "validate", "checkValidated", "write"} =>
    /\ r.inserted = FALSE
    /\ r.previous # NoRow => r.previous = r.loaded
    /\ r.data = "entity" =>
         /\ r.previous # NoRow
         /\ \A f \in Fields :
              r.entity[f] # r.loaded[f] => f \in DOMAIN r.input.body
    /\ r.data = "fresh" /\ r.previous # NoRow /\ r.op.method = "PUT"
         => r.op.standardPut
    /\ r.previous = NoRow /\ canRead(r.op) => mayBeMissing(r.op)
    /\ canDeserialize(r.op) => r.data # "null"

(* After the post-denormalize check, the frozen properties are unchanged.  *)
FrozenChecked(r) ==
  r.pc \in {"validate", "checkValidated", "write"} =>
    ("postDenormalize" \in r.op.guards => granted(Data(r), r.previous))

TellsCreation(r) ==
  r.op.method = "PUT" /\ canRead(r.op) /\ canWrite(r.op)
    /\ canDeserialize(r.op) /\ r.op.output /\ canSerialize(r.op)

(* After the write, "inserted" and the previous data tell the same story.  *)
CreationTold(r) ==
  TellsCreation(r) =>
    /\ r.pc \in {"refresh", "serialize", "respond"} =>
         /\ r.data # "null"
         /\ r.inserted <=> r.previous = NoRow
         /\ r.previous = NoRow => r.op.allowCreate
    /\ r.pc = "answered" /\ r.status \in {200, 201} =>
         (r.status = 201 <=> r.inserted)

RequestTyped(r) ==
  /\ r \in Request
  /\ r.data = "entity" => r.entity # NoRow
  /\ r.data = "fresh" => r.fresh # NoRow

RequestInv(r) ==
  /\ RequestTyped(r)
  /\ NothingRead(r) /\ JustRead(r) /\ BodyApplied(r)
  /\ FrozenChecked(r) /\ CreationTold(r)

StoreInv ==
  /\ rows \in [Ids -> Row \cup {NoRow}]
  /\ taken \subseteq Ids
  /\ exempt \subseteq Ids
  /\ requests \in 0..MaxRequests

WorkersInv ==
  /\ DOMAIN worker = Workers
  /\ \A w \in Workers : RequestInv(worker[w])

IInv == StoreInv /\ WorkersInv /\ worker \in [Workers -> Request]

-----------------------------------------------------------------------------
(* Lemmas                                                                  *)

(* Only the worker that takes the step changes.                            *)
LEMMA OneWorker ==
  ASSUME WorkersInv, worker \in [Workers -> Request],
         NEW w \in Workers, NEW r, Become(w, r), RequestInv(r)
  PROVE  WorkersInv' /\ worker' \in [Workers -> Request]
  BY DEF WorkersInv, Become, RequestInv, RequestTyped

(* A step to a later place in the chain needs its own obligations only.    *)
LEMMA BodyTyped ==
  ASSUME NEW input \in Inputs
  PROVE  /\ DOMAIN input.body \subseteq Fields
         /\ \A f \in DOMAIN input.body : input.body[f] \in Vals
  BY ConstantsAssumption DEF Input, Bodies

(* Denormalization gives a complete object of the resource, and keeps what *)
(* the body leaves out.                                                    *)
LEMMA DenormalizedTyped ==
  ASSUME NEW row \in Row, NEW input \in Inputs
  PROVE  /\ Denormalized(row, input.body) \in Row
         /\ \A f \in Fields : Denormalized(row, input.body)[f] # row[f]
              => f \in DOMAIN input.body
  BY BodyTyped DEF Denormalized, Row

LEMMA NewObjectTyped == [f \in Fields |-> Default] \in Row
  BY ConstantsAssumption DEF Row

(* A request answered has nothing to keep but its types, unless it is      *)
(* answered with a success.                                                *)
LEMMA AnsweredInv ==
  ASSUME NEW q, RequestTyped(q), q.pc = "answered", q.status \notin {200, 201}
  PROVE  RequestInv(q)
  BY DEF RequestInv, NothingRead, JustRead, BodyApplied, FrozenChecked,
         CreationTold

LEMMA RejectInv ==
  ASSUME NEW r, RequestTyped(r), NEW status \in Nat, status \notin {200, 201}
  PROVE  RequestInv(Answered(r, status))
<1> DEFINE q == Answered(r, status)
<1>1. RequestTyped(q) /\ q.pc = "answered" /\ q.status = status
  BY DEF Answered, RequestTyped, Request
<1> QED
  BY <1>1, AnsweredInv

-----------------------------------------------------------------------------
(* The invariant is inductive                                              *)

LEMMA InitInv == Init => IInv
<1> SUFFICES ASSUME Init PROVE IInv
  OBVIOUS
<1> USE ConstantsAssumption
<1>1. StoreInv
  BY DEF Init, StoreInv
<1> DEFINE r == [NewRequest(AnyOperation, AnyId, AnyInput) EXCEPT !.pc = "idle"]
<1>2. AnyOperation \in Operations /\ AnyId \in Ids /\ AnyInput \in Inputs
  BY DEF AnyOperation, AnyId, AnyInput
<1>3. RequestTyped(r) /\ r.pc = "idle"
  BY <1>2 DEF RequestTyped, Request, NewRequest
<1>4. RequestInv(r)
  BY <1>3 DEF RequestInv, NothingRead, JustRead, BodyApplied, FrozenChecked,
              CreationTold
<1>5. worker = [w \in Workers |-> r]
  BY DEF Init
<1>6. WorkersInv /\ worker \in [Workers -> Request]
  <2> HIDE DEF r
  <2> QED BY <1>3, <1>4, <1>5 DEF WorkersInv, RequestTyped
<1> QED
  BY <1>1, <1>6 DEF IInv

(* A step that leaves the table alone.                                     *)
LEMMA LocalInv ==
  ASSUME IInv, NEW w \in Workers, NEW r, Become(w, r), RequestInv(r), LocalStep
  PROVE  IInv'
<1>1. WorkersInv' /\ worker' \in [Workers -> Request]
  BY OneWorker DEF IInv
<1> QED
  BY <1>1 DEF IInv, StoreInv, LocalStep

LEMMA RejectKeepsInv ==
  ASSUME IInv, NEW w \in Workers, NEW status \in Nat, status \notin {200, 201},
         Reject(w, status), LocalStep
  PROVE  IInv'
<1>1. RequestTyped(worker[w])
  BY DEF IInv, WorkersInv, RequestInv
<1> QED
  BY <1>1, RejectInv, LocalInv DEF Reject

LEMMA StartInv ==
  ASSUME IInv, NEW w \in Workers, Start(w)
  PROVE  IInv'
<1>1. PICK op \in Operations, id \in Ids, input \in Inputs :
        Become(w, NewRequest(op, id, input))
  BY DEF Start
<1> DEFINE r == NewRequest(op, id, input)
<1>2. /\ RequestTyped(r) /\ r.pc = "negotiate"
      /\ r.data = "null" /\ r.previous = NoRow /\ r.inserted = FALSE
  BY DEF RequestTyped, Request, NewRequest
<1>3. RequestInv(r)
  <2> HIDE DEF r
  <2> QED BY <1>2 DEF RequestInv, NothingRead, JustRead, BodyApplied,
                      FrozenChecked, CreationTold
<1>4. Become(w, r)
  BY <1>1
<1>5. WorkersInv' /\ worker' \in [Workers -> Request]
  <2> HIDE DEF r
  <2> QED BY <1>3, <1>4, OneWorker DEF IInv
<1> QED
  BY <1>5, ConstantsAssumption DEF Start, IInv, StoreInv

(* Moving along the providers, from a place where the data read are        *)
(* untouched to another, or from the body applied on.                      *)
LEMMA MoveInv ==
  ASSUME NEW r, RequestInv(r), NEW pc,
         \/ r.pc \in {"negotiate", "parameters"} /\ pc \in {"parameters", "read"}
         \/ /\ r.pc \in {"checkRead", "checkParameter"}
            /\ pc \in {"checkParameter", "deserialize"}
         \/ /\ r.pc = "checkDenormalized" /\ pc = "validate"
            /\ "postDenormalize" \in r.op.guards => granted(Data(r), r.previous)
         \/ /\ r.pc \in {"validate", "checkValidated"}
            /\ pc \in {"checkValidated", "write"}
  PROVE  RequestInv([r EXCEPT !.pc = pc])
<1> DEFINE q == [r EXCEPT !.pc = pc]
<1>0. /\ pc \in {"parameters", "read", "checkParameter", "deserialize",
                 "validate", "checkValidated", "write"}
      /\ RequestTyped(r)
  BY DEF RequestInv
<1>1. /\ RequestTyped(q) /\ q.pc = pc
      /\ q.op = r.op /\ q.input = r.input /\ q.data = r.data
      /\ q.entity = r.entity /\ q.loaded = r.loaded
      /\ q.fresh = r.fresh /\ q.previous = r.previous
      /\ q.status = r.status /\ q.inserted = r.inserted
      /\ Data(q) = Data(r)
  BY <1>0 DEF RequestTyped, Request, Data
<1> HIDE DEF q
<1>2. NothingRead(q)
  BY <1>1 DEF RequestInv, NothingRead
<1>3. JustRead(q)
  BY <1>1 DEF RequestInv, JustRead
<1>4. BodyApplied(q)
  BY <1>1 DEF RequestInv, BodyApplied
<1>5. FrozenChecked(q)
  BY <1>1 DEF RequestInv, FrozenChecked
<1>6. CreationTold(q)
  BY <1>1 DEF RequestInv, CreationTold, TellsCreation
<1>7. RequestInv(q)
  BY <1>1, <1>2, <1>3, <1>4, <1>5, <1>6 DEF RequestInv
<1> QED
  BY <1>7 DEF q

LEMMA GotoInv ==
  ASSUME IInv, NEW w \in Workers, NEW pc, Goto(w, pc), LocalStep,
         RequestInv(worker[w]) => RequestInv([worker[w] EXCEPT !.pc = pc])
  PROVE  IInv'
<1>1. RequestInv(worker[w])
  BY DEF IInv, WorkersInv
<1> QED
  BY <1>1, LocalInv DEF Goto

LEMMA ProvidersInv ==
  ASSUME IInv, NEW w \in Workers,
         \/ ContentNegotiationProvider(w) \/ ParameterValidatorProvider(w)
         \/ AccessCheckerProvider(w) \/ SecurityParameterProvider(w)
         \/ ValidateProvider(w)
  PROVE  IInv'
<1> DEFINE r == worker[w]
<1>1. RequestInv(r)
  BY DEF IInv, WorkersInv
<1>2. ASSUME NEW status \in {403, 406, 415, 422}, Reject(w, status), LocalStep
      PROVE  IInv'
  BY <1>2, RejectKeepsInv
<1>3. ASSUME ContentNegotiationProvider(w) PROVE IInv'
  <2>1. CASE Goto(w, "parameters")
    <3>1. r.pc = "negotiate" /\ LocalStep
      BY <1>3 DEF ContentNegotiationProvider, Handling
    <3>2. RequestInv([r EXCEPT !.pc = "parameters"])
      BY <1>1, <3>1, MoveInv
    <3> QED
      BY <2>1, <3>1, <3>2, GotoInv
  <2> QED
    BY <1>2, <1>3, <2>1 DEF ContentNegotiationProvider
<1>4. ASSUME ParameterValidatorProvider(w) PROVE IInv'
  <2>1. CASE Goto(w, "read")
    <3>1. r.pc = "parameters" /\ LocalStep
      BY <1>4 DEF ParameterValidatorProvider, Handling
    <3>2. RequestInv([r EXCEPT !.pc = "read"])
      BY <1>1, <3>1, MoveInv
    <3> QED
      BY <2>1, <3>1, <3>2, GotoInv
  <2> QED
    BY <1>2, <1>4, <2>1 DEF ParameterValidatorProvider
<1>5. ASSUME AccessCheckerProvider(w) PROVE IInv'
  <2>0. LocalStep
    BY <1>5 DEF AccessCheckerProvider
  <2>1. CASE AccessChecker(w, "checkRead", "read", "checkParameter")
    <3>1. CASE Goto(w, "checkParameter")
      <4>1. r.pc = "checkRead"
        BY <2>1 DEF AccessChecker, Handling
      <4>2. RequestInv([r EXCEPT !.pc = "checkParameter"])
        BY <1>1, <4>1, MoveInv
      <4> QED
        BY <2>0, <3>1, <4>2, GotoInv
    <3> QED
      BY <1>2, <2>0, <2>1, <3>1 DEF AccessChecker
  <2>2. CASE PostDenormalizeChecker(w)
    <3>1. CASE Reject(w, 403)
      BY <1>2, <2>0, <3>1
    <3>2. CASE /\ Goto(w, "validate")
               /\ ~(/\ "postDenormalize" \in Op(w).guards
                    /\ ~granted(Data(worker[w]), worker[w].previous))
      <4>1. /\ r.pc = "checkDenormalized"
            /\ "postDenormalize" \in r.op.guards
                 => granted(Data(r), r.previous)
        BY <2>2, <3>2 DEF PostDenormalizeChecker, Handling, Op
      <4>2. RequestInv([r EXCEPT !.pc = "validate"])
        BY <1>1, <4>1, MoveInv
      <4> QED
        BY <2>0, <3>2, <4>2, GotoInv
    <3> QED
      BY <2>2, <3>1, <3>2 DEF PostDenormalizeChecker
  <2>3. CASE AccessChecker(w, "checkValidated", "postValidate", "write")
    <3>1. CASE Goto(w, "write")
      <4>1. r.pc = "checkValidated"
        BY <2>3 DEF AccessChecker, Handling
      <4>2. RequestInv([r EXCEPT !.pc = "write"])
        BY <1>1, <4>1, MoveInv
      <4> QED
        BY <2>0, <3>1, <4>2, GotoInv
    <3> QED
      BY <1>2, <2>0, <2>3, <3>1 DEF AccessChecker
  <2> QED
    BY <1>5, <2>1, <2>2, <2>3 DEF AccessCheckerProvider
<1>6. ASSUME SecurityParameterProvider(w) PROVE IInv'
  <2>1. CASE Goto(w, "deserialize")
    <3>1. r.pc = "checkParameter" /\ LocalStep
      BY <1>6 DEF SecurityParameterProvider, AccessChecker, Handling
    <3>2. RequestInv([r EXCEPT !.pc = "deserialize"])
      BY <1>1, <3>1, MoveInv
    <3> QED
      BY <2>1, <3>1, <3>2, GotoInv
  <2> QED
    BY <1>2, <1>6, <2>1 DEF SecurityParameterProvider, AccessChecker
<1>7. ASSUME ValidateProvider(w) PROVE IInv'
  <2>1. CASE Goto(w, "checkValidated")
    <3>1. r.pc = "validate" /\ LocalStep
      BY <1>7 DEF ValidateProvider, Handling
    <3>2. RequestInv([r EXCEPT !.pc = "checkValidated"])
      BY <1>1, <3>1, MoveInv
    <3> QED
      BY <2>1, <3>1, <3>2, GotoInv
  <2> QED
    BY <1>2, <1>7, <2>1 DEF ValidateProvider
<1> QED
  BY <1>3, <1>4, <1>5, <1>6, <1>7

LEMMA ReadInv ==
  ASSUME IInv, NEW w \in Workers, ReadProvider(w)
  PROVE  IInv'
<1> DEFINE r == worker[w]
           row == rows[r.id]
<1>1. RequestInv(r) /\ r.pc = "read" /\ LocalStep
  BY DEF IInv, WorkersInv, ReadProvider, Handling
<1>2. /\ RequestTyped(r) /\ r.data = "null" /\ r.previous = NoRow
      /\ r.inserted = FALSE
  BY <1>1 DEF RequestInv, NothingRead
<1>3. CASE Reject(w, 404)
  BY <1>1, <1>3, RejectKeepsInv
<1>4. CASE /\ Goto(w, "checkRead")
           /\ canRead(r.op) => mayBeMissing(r.op)
  <2> DEFINE q == [r EXCEPT !.pc = "checkRead"]
  <2>1. /\ RequestTyped(q) /\ q.pc = "checkRead" /\ q.op = r.op
        /\ q.data = "null" /\ q.previous = NoRow /\ q.inserted = FALSE
    BY <1>2 DEF RequestTyped, Request
  <2>2. RequestInv(q)
    <3> HIDE DEF q
    <3> QED BY <1>4, <2>1 DEF RequestInv, NothingRead, JustRead, BodyApplied,
                              FrozenChecked, CreationTold
  <2> QED
    BY <1>1, <1>4, <2>2, GotoInv
<1>5. CASE /\ row # NoRow
           /\ Become(w, [r EXCEPT !.pc = "checkRead", !.data = "entity",
                !.entity = row, !.loaded = row, !.previous = row])
  <2> DEFINE q == [r EXCEPT !.pc = "checkRead", !.data = "entity",
                     !.entity = row, !.loaded = row, !.previous = row]
  <2>1. row \in Row
    BY <1>2, <1>5 DEF IInv, StoreInv, RequestTyped, Request
  <2>2. /\ RequestTyped(q) /\ q.pc = "checkRead" /\ q.data = "entity"
        /\ q.entity # NoRow /\ q.entity = q.loaded /\ q.previous = q.loaded
        /\ q.inserted = FALSE
    BY <1>2, <1>5, <2>1 DEF RequestTyped, Request
  <2>3. RequestInv(q)
    <3> HIDE DEF q
    <3> QED BY <2>2 DEF RequestInv, NothingRead, JustRead, BodyApplied,
                        FrozenChecked, CreationTold
  <2>4. Become(w, q)
    BY <1>5
  <2> QED
    <3> HIDE DEF q
    <3> QED BY <1>1, <2>3, <2>4, LocalInv
<1> QED
  BY <1>3, <1>4, <1>5 DEF ReadProvider, Op

(* What the deserializer makes of a request that carries what was read.    *)
LEMMA DeserializedInv ==
  ASSUME NEW r, RequestInv(r), r.pc = "deserialize"
  PROVE  LET d == Deserialized(r)
         IN  /\ RequestTyped(d)
             /\ d.op = r.op /\ d.input = r.input /\ d.loaded = r.loaded
             /\ d.previous = r.previous /\ d.inserted = FALSE
             /\ d.data # "null"
             /\ d.data = "entity" =>
                  /\ r.data = "entity"
                  /\ \A f \in Fields :
                       d.entity[f] # d.loaded[f] => f \in DOMAIN d.input.body
             /\ d.data = "fresh" /\ d.previous # NoRow /\ d.op.method = "PUT"
                  => d.op.standardPut
<1> DEFINE d == Deserialized(r)
           object == Denormalized(r.entity, r.input.body)
           new == Denormalized([f \in Fields |-> Default], r.input.body)
<1> USE ConstantsAssumption
<1>1. RequestTyped(r) /\ r.inserted = FALSE /\ r.input \in Inputs
  BY DEF RequestInv, JustRead, RequestTyped, Request
<1>2. new \in Row
  BY <1>1, NewObjectTyped, DenormalizedTyped
<1>3. CASE populates(r)
  <2>1. r.data = "entity" /\ r.entity = r.loaded /\ r.entity \in Row
    BY <1>1, <1>3 DEF populates, RequestInv, JustRead, RequestTyped, Request
  <2>2. /\ object \in Row
        /\ \A f \in Fields : object[f] # r.loaded[f] => f \in DOMAIN r.input.body
    BY <1>1, <2>1, DenormalizedTyped
  <2>3. d = [r EXCEPT !.entity = object]
    BY <1>3 DEF Deserialized
  <2> HIDE DEF d, object
  <2> QED
    BY <1>1, <2>1, <2>2, <2>3 DEF RequestTyped, Request, d
<1>4. CASE ~populates(r)
  <2>1. d = [r EXCEPT !.data = "fresh", !.fresh = new]
    BY <1>4 DEF Deserialized
  <2>2. /\ RequestTyped(d) /\ d.data = "fresh"
        /\ d.op = r.op /\ d.input = r.input /\ d.loaded = r.loaded
        /\ d.previous = r.previous /\ d.inserted = FALSE
    <3> HIDE DEF d, new
    <3> QED BY <1>1, <1>2, <2>1 DEF RequestTyped, Request
  <2>3. r.previous # NoRow /\ r.op.method = "PUT" => r.op.standardPut
    BY <1>1, <1>4 DEF populates, RequestInv, JustRead, RequestTyped, Request
  <2> HIDE DEF d
  <2> QED
    BY <2>2, <2>3 DEF d
<1> QED
  BY <1>3, <1>4

LEMMA DeserializeInv ==
  ASSUME IInv, NEW w \in Workers, DeserializeProvider(w)
  PROVE  IInv'
<1> DEFINE r == worker[w]
           d == Deserialized(r)
<1>1. RequestInv(r) /\ r.pc = "deserialize" /\ LocalStep
  BY DEF IInv, WorkersInv, DeserializeProvider, Handling
<1>2. RequestTyped(r)
  BY <1>1 DEF RequestInv
<1>3. ASSUME NEW status \in {400, 415}, Reject(w, status)
      PROVE  IInv'
  BY <1>1, <1>3, RejectKeepsInv
<1>4. CASE ~canDeserialize(r.op) /\ Goto(w, "checkDenormalized")
  <2> DEFINE q == [r EXCEPT !.pc = "checkDenormalized"]
  <2>1. /\ RequestTyped(q) /\ q.pc = "checkDenormalized" /\ q.op = r.op
        /\ q.data = r.data /\ q.previous = r.previous
        /\ q.entity = r.entity /\ q.loaded = r.loaded
        /\ q.inserted = r.inserted
    BY <1>2 DEF RequestTyped, Request
  <2>2. BodyApplied(q)
    <3> HIDE DEF q
    <3> QED BY <1>1, <1>2, <1>4, <2>1
            DEF RequestInv, JustRead, BodyApplied, RequestTyped
  <2>3. RequestInv(q)
    <3> HIDE DEF q
    <3> QED BY <2>1, <2>2 DEF RequestInv, NothingRead, JustRead, FrozenChecked,
                              CreationTold
  <2> QED
    BY <1>1, <1>4, <2>3, GotoInv
<1>5. /\ RequestTyped(d)
      /\ d.op = r.op /\ d.input = r.input /\ d.loaded = r.loaded
      /\ d.previous = r.previous /\ d.inserted = FALSE
      /\ d.data # "null"
      /\ d.data = "entity" =>
           /\ r.data = "entity"
           /\ \A f \in Fields :
                d.entity[f] # d.loaded[f] => f \in DOMAIN d.input.body
      /\ d.data = "fresh" /\ d.previous # NoRow /\ d.op.method = "PUT"
           => d.op.standardPut
  BY <1>1, DeserializedInv
<1>6. ASSUME NEW status \in {400, 422},
             Become(w, Answered(d, status))
      PROVE  IInv'
  <2>1. RequestInv(Answered(d, status))
    <3>1. RequestTyped(d) /\ status \in Nat /\ status \notin {200, 201}
      BY <1>5, <1>6
    <3> HIDE DEF d
    <3> QED BY <3>1, RejectInv
  <2> QED
    <3> HIDE DEF d
    <3> QED BY <1>1, <1>6, <2>1, LocalInv
<1>7. CASE Become(w, [d EXCEPT !.pc = "checkDenormalized"])
  <2> DEFINE q == [d EXCEPT !.pc = "checkDenormalized"]
  <2>1. /\ RequestTyped(q) /\ q.pc = "checkDenormalized"
        /\ q.op = d.op /\ q.input = d.input /\ q.loaded = d.loaded
        /\ q.previous = d.previous /\ q.inserted = FALSE
        /\ q.data = d.data /\ q.entity = d.entity
    <3> HIDE DEF d
    <3> QED BY <1>5 DEF RequestTyped, Request
  <2>2. /\ r.previous # NoRow => r.previous = r.loaded
        /\ r.data = "entity" => r.previous # NoRow
        /\ r.previous = NoRow /\ canRead(r.op) => mayBeMissing(r.op)
    BY <1>1, <1>2 DEF RequestInv, JustRead, RequestTyped
  <2>3. BodyApplied(q)
    <3> HIDE DEF d, q
    <3> QED BY <1>5, <2>1, <2>2 DEF BodyApplied
  <2>4. RequestInv(q)
    <3> HIDE DEF d, q
    <3> QED BY <2>1, <2>3 DEF RequestInv, NothingRead, JustRead, FrozenChecked,
                              CreationTold
  <2> QED
    <3> HIDE DEF d
    <3> QED BY <1>1, <1>7, <2>4, LocalInv
<1> QED
  BY <1>3, <1>4, <1>6, <1>7 DEF DeserializeProvider

(* What reaches the table is what the checks were made on: the entity with *)
(* its snapshot, or a new object.                                          *)
LEMMA ReplacedInv ==
  ASSUME NEW r, RequestInv(r), r.pc = "write"
  PROVE  LET q == Replaced(r)
         IN  /\ RequestTyped(q)
             /\ q.op = r.op /\ q.id = r.id /\ q.loaded = r.loaded
             /\ q.input = r.input /\ q.previous = r.previous
             /\ q.data = "entity" =>
                  /\ q.previous # NoRow /\ q.loaded = q.previous
                  /\ r.op.method = "PATCH" =>
                       \A f \in changeSet(q) : f \in DOMAIN q.input.body
                  /\ "postDenormalize" \in r.op.guards =>
                       \A f \in Frozen : f \notin changeSet(q)
             /\ TellsCreation(q) =>
                  /\ q.data # "null"
                  /\ q.data = "fresh" <=> q.previous = NoRow
                  /\ q.previous = NoRow => q.op.allowCreate
<1> DEFINE q == Replaced(r)
<1> USE ConstantsAssumption
<1>1. RequestTyped(r) /\ BodyApplied(r) /\ FrozenChecked(r)
  BY DEF RequestInv
<1>2. CASE /\ r.op.method = "PUT" /\ r.op.standardPut
           /\ r.data = "fresh" /\ r.previous # NoRow
  <2>1. q = [r EXCEPT !.data = "entity", !.entity = r.fresh]
    BY <1>2 DEF Replaced
  <2>2. /\ RequestTyped(q)
        /\ q.op = r.op /\ q.id = r.id /\ q.loaded = r.loaded
        /\ q.input = r.input /\ q.previous = r.previous
        /\ q.data = "entity" /\ q.entity = r.fresh
    <3> HIDE DEF q
    <3> QED BY <1>1, <1>2, <2>1 DEF RequestTyped, Request
  <2>3. q.previous # NoRow /\ q.loaded = q.previous
    <3> HIDE DEF q
    <3> QED BY <1>1, <1>2, <2>2 DEF BodyApplied
  <2>4. "postDenormalize" \in r.op.guards =>
          \A f \in Frozen : r.fresh[f] = r.previous[f]
    BY <1>1, <1>2 DEF FrozenChecked, granted, Data, RequestTyped
  <2>5. "postDenormalize" \in r.op.guards =>
          \A f \in Frozen : f \notin changeSet(q)
    <3> HIDE DEF q
    <3> QED BY <2>2, <2>3, <2>4 DEF changeSet
  <2> HIDE DEF q
  <2> QED
    BY <1>2, <2>2, <2>3, <2>5 DEF q
<1>3. CASE ~(/\ r.op.method = "PUT" /\ r.op.standardPut
             /\ r.data = "fresh" /\ r.previous # NoRow)
  <2>1. q = r
    BY <1>3 DEF Replaced
  <2>2. r.data = "entity" =>
          /\ r.previous # NoRow /\ r.loaded = r.previous
          /\ \A f \in changeSet(r) : f \in DOMAIN r.input.body
    BY <1>1 DEF BodyApplied, changeSet
  <2>3. r.data = "entity" /\ "postDenormalize" \in r.op.guards =>
          \A f \in Frozen : f \notin changeSet(r)
    BY <1>1, <2>2 DEF FrozenChecked, granted, Data, RequestTyped, changeSet
  <2>4. TellsCreation(r) =>
          /\ r.data # "null"
          /\ r.data = "fresh" <=> r.previous = NoRow
          /\ r.previous = NoRow => r.op.allowCreate
    <3>1. r.data \in {"null", "entity", "fresh"}
      BY <1>1 DEF RequestTyped, Request
    <3> QED
      BY <1>1, <1>3, <2>2, <3>1 DEF BodyApplied, TellsCreation, mayBeMissing
  <2> HIDE DEF q
  <2> QED
    BY <1>1, <2>1, <2>2, <2>3, <2>4 DEF q
<1> QED
  BY <1>2, <1>3

LEMMA CommittedInv ==
  ASSUME IInv, NEW w \in Workers, NEW r, RequestTyped(r), NEW i \in Ids,
         NEW row \in Row \cup {NoRow}, Committed(w, r, i, row),
         TellsCreation(r) =>
           /\ r.data # "null"
           /\ r.data = "fresh" <=> r.previous = NoRow
           /\ r.previous = NoRow => r.op.allowCreate
  PROVE  IInv'
<1> DEFINE q == [r EXCEPT !.pc = "refresh", !.id = i, !.committed = row,
                          !.inserted = r.data = "fresh"]
<1>1. /\ RequestTyped(q) /\ q.pc = "refresh" /\ q.op = r.op
      /\ q.data = r.data /\ q.previous = r.previous
      /\ q.inserted = (r.data = "fresh")
  <2> DEFINE inserted == r.data = "fresh"
  <2>1. inserted \in BOOLEAN
    OBVIOUS
  <2>2. q = [r EXCEPT !.pc = "refresh", !.id = i, !.committed = row,
                      !.inserted = inserted]
    OBVIOUS
  <2>3. /\ RequestTyped(q) /\ q.pc = "refresh" /\ q.op = r.op
        /\ q.data = r.data /\ q.previous = r.previous
        /\ q.inserted = inserted
    <3> HIDE DEF q, inserted
    <3> QED BY <2>1, <2>2 DEF RequestTyped, Request
  <2> QED
    BY <2>3
<1>2. RequestInv(q)
  <2>1. TellsCreation(q) <=> TellsCreation(r)
    <3> HIDE DEF q
    <3> QED BY <1>1 DEF TellsCreation
  <2>2. CreationTold(q)
    <3> HIDE DEF q
    <3> QED BY <1>1, <2>1 DEF CreationTold
  <2> HIDE DEF q
  <2> QED BY <1>1, <2>2 DEF RequestInv, NothingRead, JustRead, BodyApplied,
                            FrozenChecked
<1>3. Become(w, q)
  BY DEF Committed
<1>4. WorkersInv' /\ worker' \in [Workers -> Request]
  <2> HIDE DEF q
  <2> QED BY <1>2, <1>3, OneWorker DEF IInv
<1>5. StoreInv'
  BY DEF Committed, IInv, StoreInv
<1> QED
  BY <1>4, <1>5 DEF IInv

(* The row an UPDATE leaves is complete, and gone if it was.               *)
LEMMA UpdatedTyped ==
  ASSUME NEW row \in Row \cup {NoRow}, NEW r, RequestTyped(r),
         r.data = "entity"
  PROVE  Updated(row, r) \in Row \cup {NoRow}
  BY DEF Updated, RequestTyped, Request, Row

LEMMA PersistInv ==
  ASSUME IInv, NEW w \in Workers, PersistUpdate(w) \/ PersistInsert(w)
  PROVE  IInv'
<1> DEFINE r == worker[w]
           q == Replaced(r)
<1>1. RequestInv(r) /\ r.pc = "write"
  BY DEF IInv, WorkersInv, PersistUpdate, PersistInsert, persists, Handling
<1>2. /\ RequestTyped(q) /\ q.id = r.id
      /\ TellsCreation(q) =>
           /\ q.data # "null"
           /\ q.data = "fresh" <=> q.previous = NoRow
           /\ q.previous = NoRow => q.op.allowCreate
  BY <1>1, ReplacedInv
<1>3. q.id \in Ids
  <2> HIDE DEF q
  <2> QED BY <1>2 DEF RequestTyped, Request
<1>4. CASE PersistUpdate(w)
  <2>1. q.data = "entity" /\ Committed(w, q, q.id, Updated(rows[q.id], q))
    BY <1>4 DEF PersistUpdate
  <2>2. Updated(rows[q.id], q) \in Row \cup {NoRow}
    <3> HIDE DEF q
    <3> QED BY <1>2, <1>3, <2>1, UpdatedTyped DEF IInv, StoreInv
  <2> HIDE DEF q
  <2> QED
    BY <1>2, <1>3, <2>1, <2>2, CommittedInv
<1>5. CASE PersistInsert(w)
  <2>1. PICK i \in Ids :
          \/ rows[i] = NoRow /\ Committed(w, q, i, q.fresh)
          \/ rows[i] # NoRow /\ Reject(w, 500) /\ LocalStep
    BY <1>2, <1>3, <1>5 DEF PersistInsert
  <2>2. q.fresh \in Row \cup {NoRow}
    <3> HIDE DEF q
    <3> QED BY <1>2 DEF RequestTyped, Request
  <2>3. CASE Committed(w, q, i, q.fresh)
    <3> HIDE DEF q
    <3> QED BY <1>2, <2>2, <2>3, CommittedInv
  <2>4. CASE Reject(w, 500) /\ LocalStep
    BY <2>4, RejectKeepsInv
  <2> QED
    BY <2>1, <2>3, <2>4
<1> QED
  BY <1>4, <1>5

(* A request that was in the chain of processors and stays in it.          *)
LEMMA ProcessorInv ==
  ASSUME NEW q, RequestTyped(q), q.pc \in {"serialize", "respond"},
         TellsCreation(q) =>
           /\ q.data # "null"
           /\ q.inserted <=> q.previous = NoRow
           /\ q.previous = NoRow => q.op.allowCreate
  PROVE  RequestInv(q)
  BY DEF RequestInv, NothingRead, JustRead, BodyApplied, FrozenChecked,
         CreationTold

LEMMA WriteSkippedInv ==
  ASSUME IInv, NEW w \in Workers, WriteSkipped(w)
  PROVE  IInv'
<1> DEFINE r == worker[w]
           q == [r EXCEPT !.pc = "serialize"]
<1>1. RequestInv(r) /\ r.pc = "write" /\ LocalStep
  BY DEF IInv, WorkersInv, WriteSkipped, Handling
<1>2. RequestTyped(q) /\ q.pc = "serialize" /\ q.op = r.op
  BY <1>1 DEF RequestInv, RequestTyped, Request
<1>3. ~TellsCreation(r)
  BY <1>1 DEF WriteSkipped, Op, TellsCreation, RequestInv, BodyApplied
<1>4. RequestInv(q)
  <2> HIDE DEF q
  <2> QED BY <1>2, <1>3, ProcessorInv DEF TellsCreation
<1> QED
  BY <1>1, <1>4, GotoInv DEF WriteSkipped

LEMMA RefreshInv ==
  ASSUME IInv, NEW w \in Workers, Refresh(w)
  PROVE  IInv'
<1> DEFINE r == worker[w]
           reread(object) == IF rows[r.id] = NoRow THEN object ELSE rows[r.id]
<1>1. RequestInv(r) /\ r.pc = "refresh" /\ LocalStep
  BY DEF IInv, WorkersInv, Refresh, Handling
<1>2. RequestTyped(r) /\ rows[r.id] \in Row \cup {NoRow}
  BY <1>1 DEF IInv, StoreInv, RequestInv, RequestTyped, Request
<1>3. TellsCreation(r) =>
        /\ r.data # "null"
        /\ r.inserted <=> r.previous = NoRow
        /\ r.previous = NoRow => r.op.allowCreate
  BY <1>1 DEF RequestInv, CreationTold
<1>4. ASSUME NEW q, RequestTyped(q), q.pc = "serialize", q.op = r.op,
             q.data = r.data, q.inserted = r.inserted,
             q.previous = r.previous
      PROVE  RequestInv(q)
  BY <1>3, <1>4, ProcessorInv DEF TellsCreation
<1>5. CASE /\ r.data = "entity"
           /\ Become(w, [r EXCEPT !.pc = "serialize", !.entity = reread(@)])
  <2> DEFINE q == [r EXCEPT !.pc = "serialize", !.entity = reread(@)]
  <2>1. /\ RequestTyped(q) /\ q.pc = "serialize" /\ q.op = r.op
        /\ q.data = r.data /\ q.inserted = r.inserted
        /\ q.previous = r.previous
    BY <1>2, <1>5 DEF RequestTyped, Request
  <2>2. RequestInv(q)
    <3> HIDE DEF q
    <3> QED BY <1>4, <2>1
  <2> QED
    BY <1>1, <1>5, <2>2, LocalInv
<1>6. CASE /\ r.data = "fresh"
           /\ Become(w, [r EXCEPT !.pc = "serialize", !.fresh = reread(@)])
  <2> DEFINE q == [r EXCEPT !.pc = "serialize", !.fresh = reread(@)]
  <2>1. /\ RequestTyped(q) /\ q.pc = "serialize" /\ q.op = r.op
        /\ q.data = r.data /\ q.inserted = r.inserted
        /\ q.previous = r.previous
    BY <1>2, <1>6 DEF RequestTyped, Request
  <2>2. RequestInv(q)
    <3> HIDE DEF q
    <3> QED BY <1>4, <2>1
  <2> QED
    BY <1>1, <1>6, <2>2, LocalInv
<1> QED
  BY <1>5, <1>6 DEF Refresh

LEMMA RemoveInv ==
  ASSUME IInv, NEW w \in Workers, Remove(w)
  PROVE  IInv'
<1> DEFINE r == worker[w]
           q == [r EXCEPT !.pc = "serialize", !.data = "null"]
<1>1. RequestInv(r) /\ r.pc = "write" /\ r.op.method = "DELETE"
  BY DEF IInv, WorkersInv, Remove, Handling
<1>2. RequestTyped(r) /\ r.id \in Ids
  BY <1>1 DEF RequestInv, RequestTyped, Request
<1>3. RequestTyped(q) /\ q.pc = "serialize" /\ q.op = r.op
  BY <1>2 DEF RequestTyped, Request
<1>4. Become(w, q)
  BY DEF Remove
<1>5. RequestInv(q)
  <2> HIDE DEF q
  <2> QED BY <1>1, <1>3, ProcessorInv DEF TellsCreation
<1>6. WorkersInv' /\ worker' \in [Workers -> Request]
  <2> HIDE DEF q
  <2> QED BY <1>4, <1>5, OneWorker DEF IInv
<1>7. StoreInv'
  BY <1>2 DEF Remove, IInv, StoreInv
<1> QED
  BY <1>6, <1>7 DEF IInv

LEMMA RespondInv ==
  ASSUME IInv, NEW w \in Workers,
         SerializeProcessor(w) \/ RespondProcessor(w)
  PROVE  IInv'
<1> DEFINE r == worker[w]
<1>1. RequestInv(r) /\ LocalStep /\ r.pc \in {"serialize", "respond"}
  BY DEF IInv, WorkersInv, SerializeProcessor, RespondProcessor, Handling
<1>2. /\ RequestTyped(r)
      /\ TellsCreation(r) =>
           /\ r.data # "null"
           /\ r.inserted <=> r.previous = NoRow
           /\ r.previous = NoRow => r.op.allowCreate
  BY <1>1 DEF RequestInv, CreationTold
<1>3. ASSUME NEW status \in {400, 500}, Reject(w, status)
      PROVE  IInv'
  BY <1>1, <1>3, RejectKeepsInv
<1>4. CASE Goto(w, "respond")
  <2> DEFINE q == [r EXCEPT !.pc = "respond"]
  <2>1. /\ RequestTyped(q) /\ q.pc = "respond" /\ q.op = r.op
        /\ q.data = r.data /\ q.inserted = r.inserted
        /\ q.previous = r.previous
    BY <1>2 DEF RequestTyped, Request
  <2>2. RequestInv(q)
    <3> HIDE DEF q
    <3> QED BY <1>2, <2>1, ProcessorInv DEF TellsCreation
  <2> QED
    BY <1>1, <1>4, <2>2, GotoInv
<1>5. CASE Become(w, Answered(r, responseStatus(r)))
  <2> DEFINE q == Answered(r, responseStatus(r))
  <2>1. responseStatus(r) \in Nat
    BY DEF responseStatus
  <2>2. /\ RequestTyped(q) /\ q.pc = "answered" /\ q.op = r.op
        /\ q.status = responseStatus(r) /\ q.inserted = r.inserted
    BY <1>2, <2>1 DEF Answered, RequestTyped, Request
  <2>3. TellsCreation(r) => (responseStatus(r) = 201 <=> r.inserted)
    BY <1>2 DEF TellsCreation, responseStatus, hasData
  <2>4. CreationTold(q)
    <3> HIDE DEF q
    <3> QED BY <2>2, <2>3 DEF CreationTold, TellsCreation
  <2>5. RequestInv(q)
    <3> HIDE DEF q
    <3> QED BY <2>2, <2>4 DEF RequestInv, NothingRead, JustRead, BodyApplied,
                              FrozenChecked
  <2> QED
    <3> HIDE DEF q
    <3> QED BY <1>1, <1>5, <2>5, LocalInv DEF q
<1> QED
  BY <1>3, <1>4, <1>5 DEF SerializeProcessor, RespondProcessor

LEMMA NextInv == IInv /\ [Next]_vars => IInv'
<1> SUFFICES ASSUME IInv, [Next]_vars PROVE IInv'
  OBVIOUS
<1>1. CASE UNCHANGED vars
  BY <1>1 DEF vars, IInv, StoreInv, WorkersInv
<1>2. CASE Next
  <2>1. PICK w \in Workers :
          \/ Start(w) \/ ContentNegotiationProvider(w)
          \/ ParameterValidatorProvider(w) \/ ReadProvider(w)
          \/ AccessCheckerProvider(w) \/ SecurityParameterProvider(w)
          \/ DeserializeProvider(w) \/ ValidateProvider(w)
          \/ WriteSkipped(w) \/ PersistUpdate(w) \/ PersistInsert(w)
          \/ Refresh(w) \/ Remove(w)
          \/ SerializeProcessor(w) \/ RespondProcessor(w)
    BY <1>2 DEF Next
  <2> QED
    BY <2>1, StartInv, ProvidersInv, ReadInv, DeserializeInv, WriteSkippedInv,
       PersistInv, RefreshInv, RemoveInv, RespondInv
<1> QED
  BY <1>1, <1>2

LEMMA AlwaysInv == Spec => []IInv
  BY InitInv, NextInv, PTL DEF Spec

-----------------------------------------------------------------------------
(* Theorems                                                                *)

(* The state keeps its types; a chain that carries an object has one.      *)
THEOREM TypeCorrect == Spec => []TypeOK
<1>1. IInv => TypeOK
  BY DEF IInv, StoreInv, WorkersInv, RequestInv, RequestTyped, TypeOK
<1> QED
  BY <1>1, AlwaysInv, PTL

(* Only the UPDATE of one request changes a row that remains.              *)
LEMMA OnlyUpdateChanges ==
  ASSUME IInv, [Next]_vars, NEW i \in Ids, NEW f, Changes(i, f)
  PROVE  \E w \in Workers :
           /\ PersistUpdate(w) /\ Writes(w, i)
           /\ f \in Fields => f \in changeSet(Replaced(worker[w]))
<1>1. rows' # rows
  BY DEF Changes
<1>2. PICK w \in Workers : PersistUpdate(w) \/ PersistInsert(w) \/ Remove(w)
  BY <1>1 DEF Next, vars, LocalStep, Start, ContentNegotiationProvider,
     ParameterValidatorProvider, ReadProvider, AccessCheckerProvider,
     SecurityParameterProvider, DeserializeProvider, ValidateProvider,
     WriteSkipped, Refresh, SerializeProcessor, RespondProcessor
<1> DEFINE r == worker[w]
           q == Replaced(r)
<1>3. RequestInv(r) /\ r.pc = "write" /\ r.id \in Ids
  BY <1>2 DEF IInv, WorkersInv, PersistUpdate, PersistInsert, persists, Remove,
     Handling, RequestInv, RequestTyped, Request
<1>4. rows \in [Ids -> Row \cup {NoRow}]
  BY DEF IInv, StoreInv
<1>5. RequestTyped(q) /\ q.id = r.id
  BY <1>3, ReplacedInv
<1>6. CASE PersistUpdate(w)
  <2>1. rows' = [rows EXCEPT ![q.id] = Updated(rows[q.id], q)]
    BY <1>6 DEF PersistUpdate, Committed
  <2>2. i = q.id /\ rows'[i] = Updated(rows[i], q)
    <3> HIDE DEF q
    <3> QED BY <1>3, <1>4, <1>5, <2>1 DEF Changes
  <2>3. f \in Fields => f \in changeSet(q)
    <3> HIDE DEF q
    <3> QED BY <2>2 DEF Changes, Updated
  <2> HIDE DEF q
  <2> QED
    BY <1>3, <1>5, <1>6, <2>2, <2>3 DEF Writes, q
<1>7. CASE PersistInsert(w)
  <2>1. PICK j : rows[j] = NoRow /\ rows' = [rows EXCEPT ![j] = q.fresh]
    BY <1>1, <1>7 DEF PersistInsert, Committed, LocalStep
  <2> HIDE DEF q
  <2> QED
    BY <1>4, <2>1 DEF Changes
<1>8. CASE Remove(w)
  BY <1>3, <1>4, <1>8 DEF Remove, Changes
<1> QED
  BY <1>2, <1>6, <1>7, <1>8

(* For every number of workers, rows and properties: a PATCH never changes *)
(* a property its client did not send, not even with a stale value it read *)
(* before another request wrote the row.                                   *)
THEOREM PatchStaysInItsBody == Spec => PatchTouchesItsBody
<1>1. IInv /\ [Next]_vars => [PatchStep]_vars
  <2> SUFFICES ASSUME IInv, [Next]_vars, NEW i \in Ids, NEW f \in Fields,
                      Changes(i, f)
               PROVE  \E w \in Workers :
                        /\ Writes(w, i)
                        /\ Op(w).method = "PATCH"
                             => f \in DOMAIN worker[w].input.body
    BY DEF PatchStep
  <2>1. PICK w \in Workers :
          /\ PersistUpdate(w) /\ Writes(w, i)
          /\ f \in changeSet(Replaced(worker[w]))
    BY OnlyUpdateChanges
  <2> DEFINE r == worker[w]
             q == Replaced(r)
  <2>2. RequestInv(r) /\ r.pc = "write" /\ q.data = "entity"
    BY <2>1 DEF IInv, WorkersInv, Writes, PersistUpdate
  <2>3. /\ q.input = r.input
        /\ r.op.method = "PATCH" =>
             \A g \in changeSet(q) : g \in DOMAIN q.input.body
    BY <2>2, ReplacedInv
  <2> QED
    BY <2>1, <2>3 DEF Op
<1> QED
  BY <1>1, AlwaysInv, PTL DEF Spec, PatchTouchesItsBody

(* For every number of workers: what securityPostDenormalize compares with *)
(* the previous data does not change behind it.                            *)
THEOREM FrozenStayUnchanged == Spec => FrozenPropertiesKept
<1>1. IInv /\ [Next]_vars => [FrozenStep]_vars
  <2> SUFFICES ASSUME IInv, [Next]_vars, NEW i \in Ids, NEW f \in Frozen,
                      Changes(i, f)
               PROVE  \E w \in Workers :
                        Writes(w, i) /\ "postDenormalize" \notin Op(w).guards
    BY DEF FrozenStep
  <2>0. f \in Fields
    BY ConstantsAssumption
  <2>1. PICK w \in Workers :
          /\ PersistUpdate(w) /\ Writes(w, i)
          /\ f \in changeSet(Replaced(worker[w]))
    BY <2>0, OnlyUpdateChanges
  <2> DEFINE r == worker[w]
             q == Replaced(r)
  <2>2. RequestInv(r) /\ r.pc = "write" /\ q.data = "entity"
    BY <2>1 DEF IInv, WorkersInv, Writes, PersistUpdate
  <2>3. "postDenormalize" \in r.op.guards =>
          \A g \in Frozen : g \notin changeSet(q)
    BY <2>2, ReplacedInv
  <2> QED
    BY <2>1, <2>3 DEF Op
<1> QED
  BY <1>1, AlwaysInv, PTL DEF Spec, FrozenPropertiesKept

(* Whoever else creates or removes the row meanwhile, a PUT answered 201   *)
(* inserted it and a PUT answered 200 did not.                             *)
THEOREM CreationIsTold == Spec => []PutStatusTellsCreation
<1>1. IInv => PutStatusTellsCreation
  BY DEF IInv, WorkersInv, RequestInv, CreationTold, TellsCreation,
         PutStatusTellsCreation
<1> QED
  BY <1>1, AlwaysInv, PTL

-----------------------------------------------------------------------------
(* What a PUT has sent, until it is in the row                             *)

Sent(r) == Denormalized([f \in Fields |-> Default], r.input.body)

Replaces(r) ==
  r.op.method = "PUT" /\ r.op.standardPut /\ canDeserialize(r.op)

Late == {"checkDenormalized", "validate", "checkValidated", "write"}

(* The object that waits to be written is the one that was sent; the row,  *)
(* once written, only keeps of the others what was not changed.            *)
SentKept(r) ==
  Replaces(r) =>
    /\ r.pc \in Late => r.data = "fresh" /\ r.fresh = Sent(r)
    /\ r.pc = "refresh" /\ r.data = "entity" /\ r.committed # NoRow =>
         \A f \in Fields : r.committed[f] = Sent(r)[f] \/ Sent(r)[f] = r.loaded[f]

KInv == \A w \in Workers : SentKept(worker[w])

(* Only the worker that takes the step has something to show,              *)
LEMMA KeptByOne ==
  ASSUME IInv, KInv, NEW w \in Workers, NEW q, Become(w, q), SentKept(q)
  PROVE  KInv'
  BY DEF IInv, KInv, Become

(* and nothing before the body is applied or after the row was read again. *)
LEMMA KeptElsewhere ==
  ASSUME NEW q, q.pc \notin Late \cup {"refresh"}
  PROVE  SentKept(q)
  BY DEF SentKept

LEMMA KeptReject ==
  ASSUME IInv, KInv, NEW w \in Workers, NEW status, Reject(w, status)
  PROVE  KInv'
<1>1. Answered(worker[w], status).pc = "answered"
  BY DEF IInv, Request, Answered
<1> QED
  BY <1>1, KeptByOne, KeptElsewhere DEF Reject, Late

LEMMA KeptGoto ==
  ASSUME IInv, KInv, NEW w \in Workers, NEW pc, Goto(w, pc), pc # "refresh",
         pc \in Late => worker[w].pc \in Late \/ ~Replaces(worker[w])
  PROVE  KInv'
<1> DEFINE r == worker[w]
           q == [r EXCEPT !.pc = pc]
<1>1. r \in Request /\ SentKept(r)
  BY DEF IInv, KInv
<1>2. /\ q.pc = pc /\ q.op = r.op /\ q.input = r.input
      /\ q.data = r.data /\ q.fresh = r.fresh
  BY <1>1 DEF Request
<1>3. SentKept(q)
  <2> HIDE DEF q
  <2> QED BY <1>1, <1>2 DEF SentKept, Replaces, Sent
<1>4. Become(w, q)
  BY DEF Goto
<1> QED
  <2> HIDE DEF q
  <2> QED BY <1>3, <1>4, KeptByOne

LEMMA KeptDeserialize ==
  ASSUME IInv, KInv, NEW w \in Workers, DeserializeProvider(w)
  PROVE  KInv'
<1> DEFINE r == worker[w]
<1>1. r \in Request
  BY DEF IInv
<1>2. CASE \E status : Reject(w, status)
  BY <1>2, KeptReject
<1>3. CASE ~canDeserialize(r.op) /\ Goto(w, "checkDenormalized")
  BY <1>3, KeptGoto DEF Replaces
<1>4. CASE \E status : Become(w, Answered(Deserialized(r), status))
  <2>1. PICK status : Become(w, Answered(Deserialized(r), status))
    BY <1>4
  <2>2. Answered(Deserialized(r), status).pc = "answered"
    BY <1>1 DEF Answered, Deserialized, Request
  <2> QED
    BY <2>1, <2>2, KeptByOne, KeptElsewhere DEF Late
<1>5. CASE Become(w, [Deserialized(r) EXCEPT !.pc = "checkDenormalized"])
  <2> DEFINE q == [Deserialized(r) EXCEPT !.pc = "checkDenormalized"]
  <2>1. /\ q.pc = "checkDenormalized" /\ q.op = r.op /\ q.input = r.input
        /\ Replaces(r) => q.data = "fresh" /\ q.fresh = Sent(r)
    BY <1>1 DEF Deserialized, populates, Replaces, Sent, Request
  <2>2. SentKept(q)
    <3> HIDE DEF q
    <3> QED BY <2>1 DEF SentKept, Replaces, Sent
  <2>3. Become(w, q)
    BY <1>5
  <2> QED
    <3> HIDE DEF q
    <3> QED BY <2>2, <2>3, KeptByOne
<1> QED
  BY <1>2, <1>3, <1>4, <1>5 DEF DeserializeProvider

(* The columns written are those that differ from the snapshot.            *)
LEMMA KeptUpdate ==
  ASSUME IInv, KInv, NEW w \in Workers, PersistUpdate(w)
  PROVE  KInv'
<1> DEFINE r == worker[w]
           p == Replaced(r)
           row == rows[p.id]
           q == [p EXCEPT !.pc = "refresh", !.id = p.id,
                   !.committed = Updated(row, p), !.inserted = p.data = "fresh"]
<1>1. r \in Request /\ SentKept(r) /\ r.pc = "write"
  BY DEF IInv, KInv, PersistUpdate, persists, Handling
<1>2. /\ p \in [DOMAIN r -> UNION {{p[k]} : k \in DOMAIN p}]
      /\ p.op = r.op /\ p.input = r.input /\ p.loaded = r.loaded
      /\ p.data = "entity"
      /\ r.data = "fresh" => p.entity = r.fresh
  BY <1>1 DEF PersistUpdate, Replaced, Request
<1>3. Replaces(r) => p.entity = Sent(r)
  BY <1>1, <1>2 DEF SentKept, Late
<1>4. /\ q.pc = "refresh" /\ q.op = r.op /\ q.input = r.input
      /\ q.loaded = r.loaded /\ q.committed = Updated(row, p)
  BY <1>1, <1>2 DEF Replaced, Request
<1>5. ASSUME Replaces(r), Updated(row, p) # NoRow, NEW f \in Fields
      PROVE  \/ Updated(row, p)[f] = Sent(r)[f]
             \/ Sent(r)[f] = r.loaded[f]
  <2> HIDE DEF p
  <2> QED BY <1>2, <1>3, <1>5 DEF Updated, changeSet
<1>6. SentKept(q)
  <2> HIDE DEF q, p
  <2> QED BY <1>4, <1>5 DEF SentKept, Replaces, Sent, Late
<1>7. Become(w, q)
  BY DEF PersistUpdate, Committed
<1> QED
  <2> HIDE DEF q
  <2> QED BY <1>6, <1>7, KeptByOne

(* An INSERT is of a new object.                                           *)
LEMMA KeptInsert ==
  ASSUME IInv, KInv, NEW w \in Workers, PersistInsert(w)
  PROVE  KInv'
<1> DEFINE r == worker[w]
           p == Replaced(r)
<1>1. r \in Request /\ p.data = "fresh"
  BY DEF IInv, PersistInsert
<1>2. CASE Reject(w, 500)
  BY <1>2, KeptReject
<1>3. CASE \E i : Committed(w, p, i, p.fresh)
  <2>1. PICK i : Committed(w, p, i, p.fresh)
    BY <1>3
  <2> DEFINE q == [p EXCEPT !.pc = "refresh", !.id = i,
                     !.committed = p.fresh, !.inserted = p.data = "fresh"]
  <2>2. q.pc = "refresh" /\ q.data = "fresh"
    BY <1>1 DEF Replaced, Request
  <2>3. SentKept(q)
    <3> HIDE DEF q
    <3> QED BY <2>2 DEF SentKept, Late
  <2>4. Become(w, q)
    BY <2>1 DEF Committed
  <2> QED
    <3> HIDE DEF q
    <3> QED BY <2>3, <2>4, KeptByOne
<1> QED
  BY <1>2, <1>3 DEF PersistInsert

(* Every other step rejects, answers, moves on or serializes.              *)
LEMMA KeptByProviders ==
  ASSUME IInv, KInv, NEW w \in Workers,
         \/ ContentNegotiationProvider(w) \/ ParameterValidatorProvider(w)
         \/ AccessCheckerProvider(w) \/ SecurityParameterProvider(w)
         \/ ValidateProvider(w) \/ WriteSkipped(w) \/ SerializeProcessor(w)
  PROVE  KInv'
<1>1. \/ \E status : Reject(w, status)
      \/ \E pc : /\ Goto(w, pc) /\ pc # "refresh"
                 /\ pc \in Late => worker[w].pc \in Late
  BY DEF ContentNegotiationProvider, ParameterValidatorProvider,
     AccessCheckerProvider, AccessChecker, PostDenormalizeChecker,
     SecurityParameterProvider, ValidateProvider, WriteSkipped,
     SerializeProcessor, Handling, Late
<1> QED
  BY <1>1, KeptReject, KeptGoto

LEMMA KeptByEnds ==
  ASSUME IInv, KInv, NEW w \in Workers,
         \/ Start(w) \/ ReadProvider(w) \/ Refresh(w) \/ Remove(w)
         \/ RespondProcessor(w)
  PROVE  KInv'
<1>1. worker[w] \in Request
  BY DEF IInv
<1>2. CASE \E status : Reject(w, status)
  BY <1>2, KeptReject
<1>3. CASE Goto(w, "checkRead")
  BY <1>3, KeptGoto DEF Late
<1>4. CASE \E q : Become(w, q) /\ q.pc \notin Late \cup {"refresh"}
  BY <1>4, KeptByOne, KeptElsewhere
<1>5. CASE Start(w)
  <2>1. PICK op, id, input : Become(w, NewRequest(op, id, input))
    BY <1>5 DEF Start
  <2>2. NewRequest(op, id, input).pc = "negotiate"
    BY DEF NewRequest
  <2> QED
    BY <1>4, <2>1, <2>2 DEF Late
<1>6. CASE ReadProvider(w)
  <2> DEFINE row == rows[worker[w].id]
             q == [worker[w] EXCEPT !.pc = "checkRead", !.data = "entity",
                     !.entity = row, !.loaded = row, !.previous = row]
  <2>1. q.pc = "checkRead"
    BY <1>1 DEF Request
  <2>2. Reject(w, 404) \/ Goto(w, "checkRead") \/ Become(w, q)
    BY <1>6 DEF ReadProvider
  <2> HIDE DEF q
  <2> QED
    BY <1>2, <1>3, <1>4, <2>1, <2>2 DEF Late
<1>7. CASE Refresh(w) \/ Remove(w)
  <2> DEFINE r == worker[w]
             reread(object) == IF rows[r.id] = NoRow THEN object ELSE rows[r.id]
             qe == [r EXCEPT !.pc = "serialize", !.entity = reread(@)]
             qf == [r EXCEPT !.pc = "serialize", !.fresh = reread(@)]
             qn == [r EXCEPT !.pc = "serialize", !.data = "null"]
  <2>1. qe.pc = "serialize" /\ qf.pc = "serialize" /\ qn.pc = "serialize"
    BY <1>1 DEF Request
  <2>2. Become(w, qe) \/ Become(w, qf) \/ Become(w, qn)
    BY <1>7 DEF Refresh, Remove
  <2> HIDE DEF qe, qf, qn
  <2> QED
    BY <1>4, <2>1, <2>2 DEF Late
<1>8. CASE RespondProcessor(w)
  <2> DEFINE q == Answered(worker[w], responseStatus(worker[w]))
  <2>1. q.pc = "answered"
    BY <1>1 DEF Answered, Request
  <2>2. Reject(w, 500) \/ Become(w, q)
    BY <1>8 DEF RespondProcessor
  <2> HIDE DEF q
  <2> QED
    BY <1>2, <1>4, <2>1, <2>2 DEF Late
<1> QED
  BY <1>5, <1>6, <1>7, <1>8

LEMMA KeptNext == IInv /\ KInv /\ [Next]_vars => KInv'
<1> SUFFICES ASSUME IInv, KInv, [Next]_vars PROVE KInv'
  OBVIOUS
<1>1. CASE UNCHANGED vars
  BY <1>1 DEF vars, KInv
<1>2. CASE Next
  BY <1>2, KeptDeserialize, KeptUpdate, KeptInsert, KeptByProviders, KeptByEnds
     DEF Next
<1> QED
  BY <1>1, <1>2

(* For every number of workers: what a PUT changed of the row it had read  *)
(* is in the row when it has been flushed.                                 *)
THEOREM ChangesAreKept == Spec => []PutKeepsItsChanges
<1>1. Init => KInv
  <2> SUFFICES ASSUME Init, NEW w \in Workers PROVE SentKept(worker[w])
    BY DEF KInv
  <2>1. worker[w].pc = "idle"
    BY DEF Init, NewRequest
  <2> QED
    BY <2>1, KeptElsewhere DEF Late
<1>2. KInv => PutKeepsItsChanges
  BY DEF KInv, SentKept, Replaces, Sent, PutKeepsItsChanges
<1> QED
  BY <1>1, <1>2, KeptNext, AlwaysInv, PTL DEF Spec
=============================================================================

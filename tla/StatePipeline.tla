---------------------------- MODULE StatePipeline ----------------------------
(***************************************************************************)
(* The handling of an HTTP request for one item of a Doctrine resource.    *)
(* MainController runs the chain of state providers (content negotiation,  *)
(* parameters, read, access checks, deserialization, validation), then the *)
(* chain of state processors (write, serialize, respond). Every PHP worker *)
(* has its own entity manager; the table is shared.                        *)
(***************************************************************************)
EXTENDS Naturals, FiniteSets

CONSTANTS
  Workers,     \* PHP workers, each handling one request at a time
  Ids,         \* identifiers of the rows
  Fields,      \* properties of the resource that clients write
  Vals,        \* values of a property
  Default,     \* the value of a property in a new object
  ValidRows,   \* the values of an object the validator accepts
  Frozen,      \* properties a post-denormalize expression compares
  Operations,  \* the operations of the resource metadata
  Inputs,      \* what a client sends: headers, query parameters and body
  NoRow,       \* no object; no row
  MaxRequests  \* bound: requests handled in a behaviour

Row == [Fields -> Vals]
Methods == {"GET", "POST", "PUT", "PATCH", "DELETE"}
Flag == {"default", "on", "off"}

(* An operation: its flags are null unless set, "template" says whether    *)
(* its URI has variables, "guards" names the security attributes it has.   *)
Operation ==
  [method : Methods, template : BOOLEAN, read : Flag, deserialize : Flag,
   validate : Flag, write : Flag, serialize : Flag, output : BOOLEAN,
   allowCreate : BOOLEAN, standardPut : BOOLEAN,
   guards : SUBSET {"parameter", "read", "postDenormalize", "postValidate"}]

Bodies == UNION {[D -> Vals] : D \in SUBSET Fields}

Input ==
  [contentType : {"none", "unsupported", "supported"},
   accept : {"supported", "unsupported"},
   parameters : {"valid", "invalid"},
   syntax : {"malformed", "mistyped", "typed"},
   body : Bodies]

ASSUME ConstantsAssumption ==
  /\ Default \in Vals
  /\ ValidRows \subseteq Row
  /\ Frozen \subseteq Fields
  /\ Operations \subseteq Operation
  /\ Inputs \subseteq Input
  /\ NoRow \notin Row
  /\ MaxRequests \in Nat
  /\ Operations # {} /\ Inputs # {} /\ Ids # {}
  /\ \A op \in Operations : ~op.template => op.method = "POST"

VARIABLES
  rows,     \* the table
  taken,    \* identifiers the table has ever used
  worker,   \* per worker: its request, entity manager and response
  exempt,   \* history: rows last written by an operation that forgoes validation
  requests  \* requests started so far

vars == <<rows, taken, worker, exempt, requests>>

AnyOperation == CHOOSE op \in Operations : TRUE
AnyInput == CHOOSE input \in Inputs : TRUE
AnyId == CHOOSE i \in Ids : TRUE

(* "data" says which object the chain carries: none, the managed entity or *)
(* a new one; "loaded" is the entity manager's snapshot of the row.        *)
NewRequest(op, id, input) ==
  [pc |-> "negotiate", op |-> op, id |-> id, input |-> input,
   data |-> "null", entity |-> NoRow, loaded |-> NoRow, fresh |-> NoRow,
   previous |-> NoRow, status |-> 0, inserted |-> FALSE, committed |-> NoRow]

Init ==
  /\ rows \in [Ids -> ValidRows \cup {NoRow}]
  /\ taken = {i \in Ids : rows[i] # NoRow}
  /\ worker = [w \in Workers |->
       [NewRequest(AnyOperation, AnyId, AnyInput) EXCEPT !.pc = "idle"]]
  /\ exempt = {}
  /\ requests = 0

-----------------------------------------------------------------------------
(* MainController: the flags of an operation that leaves them null.        *)

isMethodSafe(op) == op.method = "GET"

(* Fault: only operations with a full representation are validated.        *)
canValidateFull(op) ==
  \/ op.validate = "on"
  \/ op.validate = "default" /\ op.method \in {"POST", "PUT"}

canValidate(op) ==
  \/ op.validate = "on"
  \/ op.validate = "default" /\ op.method \notin {"GET", "DELETE"}

canRead(op) ==
  \/ op.read = "on"
  \/ op.read = "default" /\ (op.template \/ isMethodSafe(op))

canDeserialize(op) ==
  \/ op.deserialize = "on"
  \/ op.deserialize = "default" /\ op.method \in {"POST", "PUT", "PATCH"}

canWrite(op) ==
  \/ op.write = "on"
  \/ op.write = "default" /\ ~isMethodSafe(op)

canSerialize(op) == op.serialize # "off"

(* The object the chain carries.                                           *)
Data(r) ==
  CASE r.data = "entity" -> r.entity
    [] r.data = "fresh" -> r.fresh
    [] OTHER -> NoRow

Handling(w, pc) == worker[w].pc = pc
Op(w) == worker[w].op

Become(w, r) == worker' = [worker EXCEPT ![w] = r]
Goto(w, pc) == Become(w, [worker[w] EXCEPT !.pc = pc])

(* An exception leaves the chain; the error listener answers the status.   *)
Answered(r, status) == [r EXCEPT !.pc = "answered", !.status = status]
Reject(w, status) == Become(w, Answered(worker[w], status))

LocalStep == UNCHANGED <<rows, taken, exempt, requests>>

Start(w) ==
  /\ worker[w].pc \in {"idle", "answered"}
  /\ requests < MaxRequests
  /\ requests' = requests + 1
  /\ \E op \in Operations, id \in Ids, input \in Inputs :
       Become(w, NewRequest(op, id, input))
  /\ UNCHANGED <<rows, taken, exempt>>

-----------------------------------------------------------------------------
(* The providers, in the order their work is done.                         *)

ContentNegotiationProvider(w) ==
  LET input == worker[w].input
      badInput == /\ input.contentType = "unsupported"
                  /\ ~isMethodSafe(Op(w)) /\ Op(w).method # "DELETE"
  IN  /\ Handling(w, "negotiate")
      /\ \/ badInput /\ Reject(w, 415)
         \/ ~badInput /\ input.accept = "unsupported" /\ Reject(w, 406)
         \/ ~badInput /\ input.accept = "supported" /\ Goto(w, "parameters")
      /\ LocalStep

ParameterValidatorProvider(w) ==
  /\ Handling(w, "parameters")
  /\ \/ worker[w].input.parameters = "invalid" /\ Reject(w, 422)
     \/ worker[w].input.parameters = "valid" /\ Goto(w, "read")
  /\ LocalStep

(* Fault: every operation that writes may go on without an object.         *)
mayBeMissingToWrite(op) == ~isMethodSafe(op)

mayBeMissing(op) ==
  op.method = "POST" \/ (op.method = "PUT" /\ op.allowCreate)

ReadProvider(w) ==
  LET row == rows[worker[w].id]
  IN  /\ Handling(w, "read")
      /\ \/ ~canRead(Op(w)) /\ Goto(w, "checkRead")
         \/ /\ canRead(Op(w)) /\ row = NoRow /\ ~mayBeMissing(Op(w))
            /\ Reject(w, 404)
         \/ /\ canRead(Op(w)) /\ row = NoRow /\ mayBeMissing(Op(w))
            /\ Goto(w, "checkRead")
         \/ /\ canRead(Op(w)) /\ row # NoRow
            /\ Become(w, [worker[w] EXCEPT !.pc = "checkRead",
                 !.data = "entity", !.entity = row, !.loaded = row,
                 !.previous = row])
      /\ LocalStep

(* A "security" expression about the user, or about a parameter.           *)
AccessChecker(w, pc, guard, next) ==
  /\ Handling(w, pc)
  /\ \/ guard \in Op(w).guards /\ Reject(w, 403)
     \/ Goto(w, next)

(* "object.f == previous_object.f" in securityPostDenormalize.             *)
granted(object, previous) ==
  previous = NoRow \/ object = NoRow
    \/ \A f \in Frozen : object[f] = previous[f]

PostDenormalizeChecker(w) ==
  LET denied == /\ "postDenormalize" \in Op(w).guards
                /\ ~granted(Data(worker[w]), worker[w].previous)
  IN  /\ Handling(w, "checkDenormalized")
      /\ \/ denied /\ Reject(w, 403)
         \/ ~denied /\ Goto(w, "validate")

AccessCheckerProvider(w) ==
  /\ \/ AccessChecker(w, "checkRead", "read", "checkParameter")
     \/ PostDenormalizeChecker(w)
     \/ AccessChecker(w, "checkValidated", "postValidate", "write")
  /\ LocalStep

SecurityParameterProvider(w) ==
  /\ AccessChecker(w, "checkParameter", "parameter", "deserialize")
  /\ LocalStep

(* The data read are passed to the serializer as OBJECT_TO_POPULATE.       *)
populates(r) ==
  /\ r.data # "null"
  /\ \/ r.op.method \in {"POST", "PATCH"}
     \/ r.op.method = "PUT" /\ ~r.op.standardPut

(* Fault: the properties the body leaves out are lost.                     *)
DenormalizedBody(object, body) == body

(* The body is what the client sent of the properties it may change: one   *)
(* that its own security denies is left out, or put back at the end. A     *)
(* body that is an IRI and an input class are not modelled.                *)
Denormalized(object, body) ==
  [f \in Fields |-> IF f \in DOMAIN body THEN body[f] ELSE object[f]]

(* Fault: the previous data are not cloned.                                *)
DeserializedUncloned(r) ==
  IF populates(r)
  THEN [r EXCEPT !.entity = Denormalized(r.entity, r.input.body),
                 !.previous = Denormalized(r.entity, r.input.body)]
  ELSE [r EXCEPT !.data = "fresh",
          !.fresh = Denormalized([f \in Fields |-> Default], r.input.body)]

(* The request once the body is denormalized. The object populated is the  *)
(* managed entity itself: it is modified in place.                         *)
Deserialized(r) ==
  IF populates(r)
  THEN [r EXCEPT !.entity = Denormalized(r.entity, r.input.body)]
  ELSE [r EXCEPT !.data = "fresh",
          !.fresh = Denormalized([f \in Fields |-> Default], r.input.body)]

DeserializeProvider(w) ==
  LET r == worker[w]
      noFormat == r.input.contentType # "supported"
  IN  /\ Handling(w, "deserialize")
      /\ \/ ~canDeserialize(r.op) /\ Goto(w, "checkDenormalized")
         \/ canDeserialize(r.op) /\ noFormat /\ Reject(w, 415)
         \/ /\ canDeserialize(r.op) /\ ~noFormat
            /\ \/ r.input.syntax = "malformed" /\ Reject(w, 400)
               \/ /\ r.input.syntax = "mistyped"
                  /\ \E status \in {400, 422} :
                       Become(w, Answered(Deserialized(r), status))
               \/ /\ r.input.syntax = "typed"
                  /\ Become(w, [Deserialized(r) EXCEPT
                       !.pc = "checkDenormalized"])
      /\ LocalStep

ValidateProvider(w) ==
  LET object == Data(worker[w])
      invalid == object # NoRow /\ canValidate(Op(w)) /\ object \notin ValidRows
  IN  /\ Handling(w, "validate")
      /\ \/ invalid /\ Reject(w, 422)
         \/ ~invalid /\ Goto(w, "checkValidated")
      /\ LocalStep

-----------------------------------------------------------------------------
(* The processors: write, then serialize, then respond.                    *)

(* Fault: a PUT modifies the properties of its body only.                  *)
ReplacedInPart(r) ==
  IF /\ r.op.method = "PUT" /\ r.op.standardPut
     /\ r.data = "fresh" /\ r.previous # NoRow
  THEN [r EXCEPT !.data = "entity",
                 !.entity = Denormalized(r.entity, r.input.body)]
  ELSE r

(* A standard PUT copies the new object on the entity that was read.       *)
Replaced(r) ==
  IF /\ r.op.method = "PUT" /\ r.op.standardPut
     /\ r.data = "fresh" /\ r.previous # NoRow
  THEN [r EXCEPT !.data = "entity", !.entity = r.fresh]
  ELSE r

WriteSkipped(w) ==
  /\ Handling(w, "write")
  /\ \/ ~canWrite(Op(w))
     \/ worker[w].data = "null"
  /\ Goto(w, "serialize")
  /\ LocalStep

(* Fault: the UPDATE sets all the columns.                                 *)
changeSetOfAll(r) == Fields

changeSet(r) == {f \in Fields : r.entity[f] # r.loaded[f]}

(* The UPDATE of the fields that differ from the snapshot; no row is       *)
(* matched when another worker has deleted it.                             *)
Updated(row, r) ==
  IF row = NoRow THEN NoRow
  ELSE [f \in Fields |-> IF f \in changeSet(r) THEN r.entity[f] ELSE row[f]]

(* The operation is configured without validation, or is a read that was   *)
(* given a write.                                                          *)
forgoesValidation(op) ==
  op.validate = "off" \/ (op.validate = "default" /\ isMethodSafe(op))

Committed(w, r, i, row) ==
  /\ rows' = [rows EXCEPT ![i] = row]
  /\ taken' = taken \cup {i}
  /\ exempt' = IF forgoesValidation(r.op) THEN exempt \cup {i} ELSE exempt \ {i}
  /\ Become(w, [r EXCEPT !.pc = "refresh", !.id = i, !.committed = row,
                          !.inserted = r.data = "fresh"])
  /\ UNCHANGED requests

persists(w) == Handling(w, "write") /\ canWrite(Op(w)) /\ Op(w).method # "DELETE"

PersistUpdate(w) ==
  LET r == Replaced(worker[w])
  IN  /\ persists(w)
      /\ r.data = "entity"
      /\ Committed(w, r, r.id, Updated(rows[r.id], r))

(* A PUT inserts under the identifier of its URI, the others under one the *)
(* database generates; an INSERT of a row that exists fails.               *)
PersistInsert(w) ==
  LET r == Replaced(worker[w])
      target == IF r.op.method = "PUT" /\ r.op.standardPut THEN {r.id}
                ELSE Ids \ taken
  IN  /\ persists(w)
      /\ r.data = "fresh"
      /\ \E i \in target :
           \/ rows[i] = NoRow /\ Committed(w, r, i, r.fresh)
           \/ rows[i] # NoRow /\ Reject(w, 500) /\ LocalStep

(* The object answered takes the values of the row, if it still exists.    *)
Refresh(w) ==
  LET r == worker[w]
      reread(object) == IF rows[r.id] = NoRow THEN object ELSE rows[r.id]
  IN  /\ Handling(w, "refresh")
      /\ \/ /\ r.data = "entity"
            /\ Become(w, [r EXCEPT !.pc = "serialize", !.entity = reread(@)])
         \/ /\ r.data = "fresh"
            /\ Become(w, [r EXCEPT !.pc = "serialize", !.fresh = reread(@)])
      /\ LocalStep

(* The processor returns nothing: the response has no body. A row that is  *)
(* gone already is no error.                                               *)
Remove(w) ==
  LET r == worker[w]
  IN  /\ Handling(w, "write")
      /\ canWrite(r.op) /\ r.op.method = "DELETE" /\ r.data # "null"
      /\ rows' = IF r.data = "entity" THEN [rows EXCEPT ![r.id] = NoRow] ELSE rows
      /\ Become(w, [r EXCEPT !.pc = "serialize", !.data = "null"])
      /\ UNCHANGED <<taken, exempt, requests>>

(* The normalizers may throw, after the write: the exceptions of the       *)
(* serializer are mapped to 400 by default.                                *)
SerializeProcessor(w) ==
  /\ Handling(w, "serialize")
  /\ \/ /\ canSerialize(Op(w)) /\ Op(w).output /\ worker[w].data # "null"
        /\ \E status \in {400, 500} : Reject(w, status)
     \/ Goto(w, "respond")
  /\ LocalStep

hasData(r) == r.op.output /\ canSerialize(r.op) /\ r.data # "null"

(* Fault: whether the row existed is not asked.                            *)
responseStatusOfPut(r) ==
  IF hasData(r) /\ r.op.method = "PUT" /\ r.op.allowCreate
  THEN 201
  ELSE CASE r.op.method = "POST" -> 201
         [] r.op.method = "DELETE" -> 204
         [] OTHER -> 200

responseStatus(r) ==
  IF /\ hasData(r) /\ r.op.method = "PUT"
     /\ r.previous = NoRow /\ r.op.allowCreate
  THEN 201
  ELSE CASE r.op.method = "POST" -> 201
         [] r.op.method = "DELETE" -> 204
         [] OTHER -> 200

(* An object that was not serialized is not the content of a Response.     *)
RespondProcessor(w) ==
  LET r == worker[w]
      unserialized == ~canSerialize(r.op) /\ r.data # "null"
  IN  /\ Handling(w, "respond")
      /\ \/ unserialized /\ Reject(w, 500)
         \/ /\ ~unserialized
            /\ Become(w, Answered(r, responseStatus(r)))
      /\ LocalStep

Next ==
  \E w \in Workers :
    \/ Start(w)
    \/ ContentNegotiationProvider(w)
    \/ ParameterValidatorProvider(w)
    \/ ReadProvider(w)
    \/ AccessCheckerProvider(w)
    \/ SecurityParameterProvider(w)
    \/ DeserializeProvider(w)
    \/ ValidateProvider(w)
    \/ WriteSkipped(w)
    \/ PersistUpdate(w)
    \/ PersistInsert(w)
    \/ Refresh(w)
    \/ Remove(w)
    \/ SerializeProcessor(w)
    \/ RespondProcessor(w)

Spec == Init /\ [][Next]_vars

-----------------------------------------------------------------------------
(* Properties                                                              *)

(* The type of the whole state.                                            *)
Request ==
  [pc : {"idle", "negotiate", "parameters", "read", "checkRead",
         "checkParameter", "deserialize", "checkDenormalized", "validate",
         "checkValidated", "write", "refresh", "serialize", "respond",
         "answered"},
   op : Operations, id : Ids, input : Inputs,
   data : {"null", "entity", "fresh"},
   entity : Row \cup {NoRow}, loaded : Row \cup {NoRow},
   fresh : Row \cup {NoRow}, previous : Row \cup {NoRow},
   committed : Row \cup {NoRow}, status : Nat,
   inserted : BOOLEAN]

(* Types of the state; the data a request carries always exist.            *)
TypeOK ==
  /\ rows \in [Ids -> Row \cup {NoRow}]
  /\ taken \subseteq Ids
  /\ worker \in [Workers -> Request]
  /\ exempt \subseteq Ids
  /\ requests \in 0..MaxRequests
  /\ \A w \in Workers :
       /\ worker[w].data = "entity" => worker[w].entity # NoRow
       /\ worker[w].data = "fresh" => worker[w].fresh # NoRow

(* When requests do not overlap, every row is one the validator accepted,  *)
(* whatever mix of defaults and flags the operations have, unless the last *)
(* operation that wrote it was configured without validation.              *)
RowsAreValid ==
  \A i \in Ids : rows[i] \in ValidRows \cup {NoRow} \/ i \in exempt

(* "Create or replace": the row a standard PUT leaves is the              *)
(* representation its client sent.                                         *)
PutReplaces ==
  \A w \in Workers :
    LET r == worker[w]
    IN  r.pc = "refresh" /\ r.op.method = "PUT" /\ canDeserialize(r.op)
          /\ r.op.standardPut
        => r.committed =
             Denormalized([f \in Fields |-> Default], r.input.body)

(* Two PUT requests that both read a row before either wrote it may leave a *)
(* mixture of the two representations, the one of neither client; but each *)
(* gives way only where it agreed with the row it had read: what a client  *)
(* changed is in the row when its PUT has been flushed, whatever the other *)
(* workers have written since the read.                                    *)
PutKeepsItsChanges ==
  \A w \in Workers :
    LET r == worker[w]
        sent == Denormalized([f \in Fields |-> Default], r.input.body)
    IN  r.pc = "refresh" /\ r.op.method = "PUT" /\ r.op.standardPut
          /\ canDeserialize(r.op) /\ r.data = "entity" /\ r.committed # NoRow
        => \A f \in Fields : r.committed[f] = sent[f] \/ sent[f] = r.loaded[f]

(* 201 or 200: a PUT that may create tells its client whether it did, with *)
(* the row read, and locked by nothing, long before it is written.         *)
PutStatusTellsCreation ==
  \A w \in Workers :
    LET r == worker[w]
    IN  r.pc = "answered" /\ r.op.method = "PUT" /\ r.status \in {200, 201}
          /\ canRead(r.op) /\ canWrite(r.op) /\ canDeserialize(r.op)
          /\ r.op.output /\ canSerialize(r.op)
        => (r.status = 201 <=> r.inserted)

(* A step that changes property f of row i, which exists before and after. *)
Changes(i, f) ==
  rows[i] # NoRow /\ rows'[i] # NoRow /\ rows'[i][f] # rows[i][f]

Writes(w, i) == worker[w].pc = "write" /\ worker[w].id = i

PatchStep ==
  \A i \in Ids, f \in Fields :
    Changes(i, f) =>
      \E w \in Workers :
        /\ Writes(w, i)
        /\ Op(w).method = "PATCH" => f \in DOMAIN worker[w].input.body

(* However requests interleave, a write changes of an existing row only    *)
(* what its client sent: a PATCH touches the properties of its body.       *)
PatchTouchesItsBody == [][PatchStep]_vars

FrozenStep ==
  \A i \in Ids, f \in Frozen :
    Changes(i, f) =>
      \E w \in Workers :
        Writes(w, i) /\ "postDenormalize" \notin Op(w).guards

(* The expression of securityPostDenormalize sees the object before and    *)
(* after the body is applied: as long as every operation that can modify a *)
(* row states it, the properties it compares never change, although other  *)
(* workers write the same row between the check and the write.             *)
FrozenPropertiesKept == [][FrozenStep]_vars
=============================================================================

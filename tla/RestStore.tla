------------------------------ MODULE RestStore ------------------------------
(***************************************************************************)
(* What the clients of a resource are promised: every request takes effect *)
(* in one step, as its method says, or not at all, and the status of the   *)
(* answer tells which. StatePipeline reaches this in a dozen steps.        *)
(***************************************************************************)
EXTENDS Naturals

CONSTANTS
  Clients,    \* those who send requests, one at a time each
  Ids, Fields, Vals,
  Default,    \* the value of a property the client leaves out
  ValidRows,  \* the objects that may be stored
  NoRow

Row == [Fields -> Vals]
Bodies == UNION {[D -> Vals] : D \in SUBSET Fields}

(* A "custom" request is one whose operation is configured away from the   *)
(* defaults of its method: it only promises to touch one row.              *)
Kinds == {"fetch", "create", "replace", "merge", "remove", "custom"}

VARIABLES
  rows,  \* the objects
  used,  \* identifiers that were given to an object
  call   \* per client: its request, whether it took effect, its answer

vars == <<rows, used, call>>

Call ==
  [phase : {"idle", "called", "done", "answered"}, kind : Kinds, id : Ids,
   body : Bodies, status : Nat]

Init ==
  /\ rows \in [Ids -> ValidRows \cup {NoRow}]
  /\ used = {i \in Ids : rows[i] # NoRow}
  /\ call \in [Clients -> Call]
  /\ \A c \in Clients : call[c].phase = "idle"

Created(body) ==
  [f \in Fields |-> IF f \in DOMAIN body THEN body[f] ELSE Default]

Merged(row, body) ==
  [f \in Fields |-> IF f \in DOMAIN body THEN body[f] ELSE row[f]]

Receive(c) ==
  /\ call[c].phase \in {"idle", "answered"}
  /\ call' \in [Clients -> Call]
  /\ call'[c].phase = "called"
  /\ \A d \in Clients \ {c} : call'[d] = call[d]
  /\ UNCHANGED <<rows, used>>

(* The one step in which the request of c takes effect on row i.           *)
Effect(c, i, row) ==
  /\ call[c].phase = "called"
  /\ rows' = [rows EXCEPT ![i] = row]
  /\ used' = IF row = NoRow THEN used ELSE used \cup {i}
  /\ call' = [call EXCEPT ![c].phase = "done", ![c].id = i]

Create(c) ==
  /\ call[c].kind = "create"
  /\ Created(call[c].body) \in ValidRows
  /\ \E i \in Ids \ used : Effect(c, i, Created(call[c].body))

Replace(c) ==
  /\ call[c].kind = "replace"
  /\ Created(call[c].body) \in ValidRows
  /\ Effect(c, call[c].id, Created(call[c].body))

Merge(c) ==
  LET i == call[c].id
  IN  /\ call[c].kind = "merge"
      /\ rows[i] # NoRow
      /\ Merged(rows[i], call[c].body) \in ValidRows
      /\ Effect(c, i, Merged(rows[i], call[c].body))

Remove(c) ==
  /\ call[c].kind = "remove"
  /\ rows[call[c].id] # NoRow
  /\ Effect(c, call[c].id, NoRow)

Custom(c) ==
  /\ call[c].kind = "custom"
  /\ \E i \in Ids, row \in Row \cup {NoRow} : Effect(c, i, row)

Answer(c, status) ==
  /\ call' = [call EXCEPT ![c].phase = "answered", ![c].status = status]
  /\ UNCHANGED <<rows, used>>

successOf(kind) ==
  CASE kind = "create"  -> {201}
    [] kind = "replace" -> {200, 201}
    [] kind = "remove"  -> {204}
    [] kind = "custom"  -> {200, 201, 204}
    [] OTHER            -> {200}

Refusals == {400, 403, 404, 406, 415, 422, 500}

(* What failed after the effect was the representation of the answer.      *)
OutputFailures == {400, 500}

Succeed(c) ==
  /\ call[c].phase = "done"
       \/ (call[c].phase = "called" /\ call[c].kind \in {"fetch", "custom"})
  /\ \E status \in successOf(call[c].kind) : Answer(c, status)

Refuse(c) ==
  /\ call[c].phase = "called"
  /\ \E status \in Refusals : Answer(c, status)

FailToAnswer(c) ==
  /\ call[c].phase = "done"
  /\ \E status \in OutputFailures : Answer(c, status)

Next ==
  \E c \in Clients :
    \/ Receive(c) \/ Create(c) \/ Replace(c) \/ Merge(c) \/ Remove(c)
    \/ Custom(c) \/ Succeed(c) \/ Refuse(c) \/ FailToAnswer(c)

Spec == Init /\ [][Next]_vars
=============================================================================

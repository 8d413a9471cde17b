--------------------------- MODULE StoreRefinement ---------------------------
(***************************************************************************)
(* StatePipeline, when its requests do not overlap, implements RestStore.  *)
(***************************************************************************)
EXTENDS StatePipeline

(* The method's promise is made by operations with its default flags.      *)
hasDefaults(op) ==
  /\ op.read = "default" /\ op.deserialize = "default"
  /\ op.validate = "default" /\ op.write = "default"

kindOf(op) ==
  IF ~hasDefaults(op) THEN "custom"
  ELSE CASE op.method = "GET" -> "fetch"
         [] op.method = "POST" /\ ~op.template -> "create"
         [] op.method = "PUT" /\ op.template /\ op.standardPut -> "replace"
         [] op.method = "PUT" /\ op.template /\ ~op.standardPut
              /\ ~op.allowCreate -> "merge"
         [] op.method = "PATCH" -> "merge"
         [] op.method = "DELETE" -> "remove"
         [] OTHER -> "custom"

(* The write of the request has been flushed.                              *)
wrote(r) ==
  \/ r.pc = "refresh"
  \/ /\ r.pc \in {"serialize", "respond"}
     /\ \/ r.committed # NoRow
        \/ r.op.method = "DELETE" /\ canWrite(r.op) /\ r.data = "null"

phaseOf(r) ==
  CASE r.pc \in {"idle", "answered"} -> r.pc
    [] wrote(r) -> "done"
    [] OTHER -> "called"

callOf(r) ==
  [phase |-> phaseOf(r), kind |-> kindOf(r.op), id |-> r.id,
   body |-> r.input.body, status |-> r.status]

Store == INSTANCE RestStore WITH
  Clients <- Workers,
  used <- taken,
  call <- [w \in Workers |-> callOf(worker[w])]

(* With one worker, a request through all the providers and processors     *)
(* takes effect in a single step, once, as its method promises, on the     *)
(* data its client sent; an answer of success comes only after it and a    *)
(* refusal only without it. A failure to serialize is the one error that   *)
(* may follow a write.                                                     *)
ImplementsStore == Store!Spec
=============================================================================

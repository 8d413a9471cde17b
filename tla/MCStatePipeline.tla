--------------------------- MODULE MCStatePipeline ---------------------------
(* Small instances of StatePipeline for TLC.                               *)
EXTENDS StoreRefinement, TLC

CONSTANTS w1, w2, a, b

MCFields == {a, b}
MCVals == {0, 1}

(* The validator relates two properties: they are not both 1.              *)
MCValidRows == {row \in [MCFields -> MCVals] : row[a] + row[b] < 2}
MCFrozen == {a}
MCNotFrozen == {}

Plain(method) ==
  [method |-> method, template |-> TRUE, read |-> "default",
   deserialize |-> "default", validate |-> "default", write |-> "default",
   serialize |-> "default", output |-> TRUE, allowCreate |-> FALSE,
   standardPut |-> TRUE, guards |-> {}]

Guarded(method) == [Plain(method) EXCEPT !.guards = {"postDenormalize"}]

(* The default operations, and each setting that changes the control.      *)
MCOperations ==
  {Plain(m) : m \in Methods} \cup
  {[Plain("POST") EXCEPT !.template = FALSE],
   [Plain("POST") EXCEPT !.deserialize = "off", !.read = "off"],
   [Plain("PUT") EXCEPT !.allowCreate = TRUE],
   [Plain("PUT") EXCEPT !.allowCreate = TRUE, !.output = FALSE],
   [Plain("PUT") EXCEPT !.standardPut = FALSE],
   [Plain("PUT") EXCEPT !.read = "off"],
   [Plain("PUT") EXCEPT !.deserialize = "off"],
   [Plain("PATCH") EXCEPT !.validate = "off"],
   [Plain("PATCH") EXCEPT !.write = "off"],
   [Plain("PATCH") EXCEPT !.serialize = "off"],
   [Plain("GET") EXCEPT !.write = "on"],
   [Plain("DELETE") EXCEPT !.validate = "on", !.deserialize = "on"],
   [Plain("PATCH") EXCEPT !.guards =
      {"read", "parameter", "postDenormalize", "postValidate"}]}

(* The operations of a resource that freezes a property.                   *)
MCGuardedOperations ==
  {Guarded("PATCH"), Guarded("POST"), Plain("DELETE"),
   [Guarded("PUT") EXCEPT !.allowCreate = TRUE]}

Sent(body) ==
  [contentType |-> "supported", accept |-> "supported",
   parameters |-> "valid", syntax |-> "typed", body |-> body]

MCBodies == {a :> 1 @@ b :> 0, a :> 0 @@ b :> 1, a :> 1 @@ b :> 1,
             a :> 1, b :> 1, a :> 0}

MCInputs ==
  {Sent(body) : body \in MCBodies} \cup
  {[Sent(a :> 1) EXCEPT !.contentType = "none"],
   [Sent(a :> 1) EXCEPT !.contentType = "unsupported"],
   [Sent(a :> 1) EXCEPT !.accept = "unsupported"],
   [Sent(a :> 1) EXCEPT !.parameters = "invalid"],
   [Sent(a :> 1) EXCEPT !.syntax = "malformed"],
   [Sent(a :> 1) EXCEPT !.syntax = "mistyped"]}

MCGoodInputs == {Sent(body) : body \in MCBodies}

Symmetry == Permutations(Workers)
=============================================================================

-------------------------------- MODULE MCToolOutput --------------------------------
(* Small instances of ToolOutput. *)
EXTENDS ToolOutput, FiniteSetsExt, TLC

Plain(type) == [ref |-> None, type |-> type, props |-> <<>>]
To(name) == [ref |-> name, type |-> "any", props |-> <<>>]

(* Leaves, references, references that say more, and objects that refer to *)
(* one component or to two, themselves perhaps among them.                 *)
SomeSchemas ==
  {Plain("string"), Plain("object"), Plain("any"), To("A"), To("B"),
   [To("B") EXCEPT !.type = "object"], [To("B") EXCEPT !.props = [a |-> Plain("string")]],
   Object([a |-> Plain("string")]), Object([a |-> To("A")]),
   Object([a |-> To("B"), b |-> To("B")]), Object([a |-> To("A"), b |-> To("B")])}

SomeComponents ==
  [{"A", "B"} -> SomeSchemas] \cup {[n \in {"A"} |-> s] : s \in SomeSchemas}

Says(content) == [ref |-> None, content |-> content]
Content(essence, schema) == [essence |-> essence, schema |-> schema]
SharedAs(name) == [ref |-> name, content |-> <<>>]

Json == Says(<<Content("text", None), Content("application/json", To("A"))>>)
Vendor == Says(<<Content("+json", To("A"))>>)

(* A response, one that refers to it, and a chain that is too long.        *)
SomeShared == "r1" :> Json @@ "r2" :> SharedAs("r1") @@ "r3" :> SharedAs("r2")

SomeResponses ==
  {"200" :> Json @@ "404" :> Vendor,
   "200" :> Says(<<Content("+json", Plain("string")), Content("application/json", To("A"))>>),
   "2XX" :> Json @@ "204" :> Says(<<>>),
   "2XX" :> Vendor @@ "200" :> Json @@ "default" :> Json,
   "200" :> Json @@ "201" :> Says(<<Content("application/json", To("B"))>>),
   "200" :> SharedAs("r2"), "200" :> SharedAs("r3"), "default" :> Json}

SomeSpecs ==
  [components : SomeComponents, shared : {SomeShared}, responses : SomeResponses]

Leaf(type) == [type |-> type, members |-> <<>>]
Members(ms) == [type |-> "object", members |-> ms]

Small == {Leaf("string"), Leaf("object"), Members([a |-> Leaf("string")])}

SomeValues ==
  Small \cup {Members([a |-> v]) : v \in Small}
  \cup {Members([a |-> v, b |-> w]) : v \in {Leaf("string"), Leaf("object")}, w \in Small}

SomeMediaTypes == {"application/json", "+json", "text", "image", "other"}

SomeNames == {"A", "B"}

RECURSIVE Nesting(_)
Nesting(it) ==
  LET parts == IF "ref" \in DOMAIN it THEN it.props ELSE it.members
  IN  Max({0} \cup {1 + Nesting(parts[k]) : k \in DOMAIN parts})

SomeDepths == [it \in SomeSchemas \cup SomeValues |-> Nesting(it)]
===================================================================================

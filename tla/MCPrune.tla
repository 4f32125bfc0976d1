--------------------------------- MODULE MCPrune ----------------------------------
(* Small instances of Prune. *)
EXTENDS Prune, TLC

CONSTANTS shown, hidden, a, b, s, t

SomeOperations == {shown, hidden}
SomeComponents == {a, b, s, t}
SomeSchemes    == {s, t}

(* Two schemas that may refer to each other and to themselves, a security  *)
(* scheme that may be an alias of another, a dangling reference to b.      *)
SomeDocuments ==
  {[components |-> c,
    refs  |-> shown :> rs @@ hidden :> {b, t} @@ Top :> {} @@ a :> ra @@ b :> rb
              @@ s :> rt @@ t :> {},
    named |-> shown :> ns @@ hidden :> {t} @@ Top :> {} @@ a :> {} @@ b :> nb
              @@ s :> {} @@ t :> {},
    kept  |-> k] :
      c \in {SomeComponents, SomeComponents \ {b}}, k \in {{shown}, SomeOperations},
      rs \in {{}, {a}}, ra \in {{a}, {a, b}}, rb \in {{}, {a, s}},
      rt \in SUBSET {t}, ns \in SUBSET {s}, nb \in SUBSET {t}}
===================================================================================
